---- MODULE Spec2Model ----
(***************************************************************************)
(* Event aggregation pipeline of the LA events backend                    *)
(* (src/unnamed/part_008, lines 201-646: the enriching two-provider route *)
(* handler; src/server/routes.ts lines 1-322 is the same handler without  *)
(* the enrichment steps).                                                 *)
(*                                                                         *)
(* The specifications of the module:                                       *)
(*   SpecDedup     deduplicateEvents as a pure function over bounded       *)
(*                 inputs                                                  *)
(*   Spec          one GET /api/events request: fan-out to the two         *)
(*                 provider adapters, join, collect, deduplicate, enrich,  *)
(*                 respond                                                 *)
(*   SpecLive      Spec with the fairness of the event loop                *)
(*   SpecCategory  the category mappers as pure functions                  *)
(*   SpecTransit   getNearestTransit as a pure function over a grid        *)
(*   SpecStats     GET /api/events requests interleaved with the POST      *)
(*                 view and favorite routes                                *)
(*   SpecThree     one GET /api/events request of the three-provider       *)
(*                 handler (src/unnamed/part_009)                          *)
(*   SpecGeo       the item mappings of the adapters as functions of the   *)
(*                 geolocation of an item                                  *)
(*   SpecFavorites the FavoritesProvider of the client                     *)
(*                 (src/unnamed/part_007)                                  *)
(*   SpecSingle    one GET /api/events request of the single-provider      *)
(*                 handler (src/server/routes.ts, lines 323-531)           *)
(***************************************************************************)
EXTENDS Integers, Sequences, FiniteSets, TLC

VARIABLES
    dedupInput,     \* argument `events` of a deduplicateEvents call
    dedupOutput,    \* <<its return value>>, NotCalled before the call
    dedupAgain,     \* <<return value of deduplicateEvents on that output>>
    env,            \* process.env: which API keys are configured
    pc,             \* position of the GET /api/events handler
    tm,             \* the fetchTicketmasterEvents() call of the request
    yelp,           \* the fetchYelpEvents() call of the request
    promiseAll,     \* the Promise.all([...]) the handler awaits
    eventStats,     \* the module-level Map eventStats
    responses,      \* res.json(...) calls of the request, in order
    httpCalls,      \* fetch() calls issued by each adapter for the request
    settleOrder,    \* adapters in the order their promises settled
    mapperInput,    \* argument of a category mapper call
    mapperOutput,   \* <<its return value>>, NotCalled before the call
    transitAt,      \* arguments <<latitude, longitude>> of a getNearestTransit call
    transitOut,     \* <<its return value>>, NotCalled before the call
    lastPost,       \* <<the last POST request served, with its response body and
                    \*   whether a GET request was in its fetch phase then>>
    postCount,      \* the number of POST requests served
    eb,             \* the fetchEventbriteEvents() call of the request
    fav             \* the FavoritesProvider of the client and its storage

dedupVars == <<dedupInput, dedupOutput, dedupAgain>>
routeVars == <<env, pc, tm, yelp, promiseAll, eventStats, responses,
               httpCalls, settleOrder>>
auxVars == <<mapperInput, mapperOutput, transitAt, transitOut, lastPost, postCount, eb,
            fav>>
vars == <<dedupInput, dedupOutput, dedupAgain, env, pc, tm, yelp, promiseAll,
          eventStats, responses, httpCalls, settleOrder,
          mapperInput, mapperOutput, transitAt, transitOut, lastPost, postCount, eb, fav>>

(***************************************************************************)
(* Bounds of the model                                                     *)
(***************************************************************************)
\* longest list handed to deduplicateEvents in SpecDedup
MaxLen == 3
\* longest list of items one upstream HTTP response carries
MaxItems == 1

NotCalled == <<>>

\* F(x), with x evaluated once
With(x, F(_)) == CHOOSE r \in {F(v) : v \in {x}} : TRUE

RECURSIVE SeqsUpTo(_, _)
\* all sequences over S of length at most n
SeqsUpTo(S, n) ==
    IF n = 0 THEN {<<>>}
    ELSE LET shorter == SeqsUpTo(S, n - 1)
         IN  shorter \cup {Append(s, x) : s \in {t \in shorter : Len(t) = n - 1}, x \in S}

(***************************************************************************)
(* JavaScript Map, as deduplicateEvents uses it: entries in insertion      *)
(* order, set() of a present key keeps the key's position.                 *)
(***************************************************************************)
MapHas(map, key) == \E i \in 1..Len(map) : map[i].key = key

MapSet(map, key, value) ==
    IF MapHas(map, key)
    THEN [i \in 1..Len(map) |->
            IF map[i].key = key THEN [key |-> key, value |-> value] ELSE map[i]]
    ELSE Append(map, [key |-> key, value |-> value])

MapValues(map) == [i \in 1..Len(map) |-> map[i].value]

(***************************************************************************)
(* deduplicateEvents                                                       *)
(***************************************************************************)
\* mutant: the map is keyed by the title instead of the id
DedupKeyByTitle(event) == event.title

\* the key an event is remembered under: event.id
DedupKey(event) == event.id

\* mutant: the has() guard is dropped, a later occurrence overwrites the first
SeenStepOverwrite(seen, event) == MapSet(seen, DedupKey(event), event)

\* one iteration of the for-of loop: if (!seen.has(event.id)) seen.set(...)
SeenStep(seen, event) ==
    IF ~MapHas(seen, DedupKey(event))
    THEN MapSet(seen, DedupKey(event), event)
    ELSE seen

RECURSIVE SeenAfter(_, _)
\* the Map `seen` after the loop has run over the first n events
SeenAfter(events, n) ==
    IF n = 0 THEN <<>>
    ELSE With(SeenAfter(events, n - 1), LAMBDA seen : SeenStep(seen, events[n]))

\* deduplicateEvents(events): Array.from(seen.values())
DeduplicateEvents(events) == MapValues(SeenAfter(events, Len(events)))

(***************************************************************************)
(* SpecDedup: deduplicateEvents on every list of at most MaxLen events     *)
(***************************************************************************)
DedupIds == {"x", "y"}
DedupTitles == {"t1", "t2"}
DedupEvents == [id : DedupIds, title : DedupTitles]

InitDedupIdle ==
    /\ dedupInput = <<>>
    /\ dedupOutput = NotCalled
    /\ dedupAgain = NotCalled

\* uniqueEvents = deduplicateEvents(allEvents)
CallDedup ==
    /\ dedupOutput = NotCalled
    /\ dedupOutput' = <<DeduplicateEvents(dedupInput)>>
    /\ UNCHANGED <<dedupInput, dedupAgain>>

\* deduplicateEvents applied to its own output
CallDedupAgain ==
    /\ dedupOutput # NotCalled
    /\ dedupAgain = NotCalled
    /\ dedupAgain' = <<DeduplicateEvents(dedupOutput[1])>>
    /\ UNCHANGED <<dedupInput, dedupOutput>>


(***************************************************************************)
(* Data of the route handler                                               *)
(* Coordinates are integers in units of 1e-4 degree (34.0522 is 340522).   *)
(***************************************************************************)
\* default coordinate of an item without geolocation: 34.0522, -118.2437
CityCenterLat == 340522
CityCenterLng == -1182437

\* MOCK_EVENTS
MOCK_EVENTS == <<
    [id |-> "mock-1", title |-> "Hollywood Bowl Summer Concert",
     category |-> "entertainment", latitude |-> 341122, longitude |-> -1183391],
    [id |-> "mock-2", title |-> "Grand Central Market Food Tour",
     category |-> "food", latitude |-> 340509, longitude |-> -1182489],
    [id |-> "mock-3", title |-> "Lakers vs Celtics",
     category |-> "sports", latitude |-> 340430, longitude |-> -1182673],
    [id |-> "mock-4", title |-> "LACMA Art Exhibition",
     category |-> "arts", latitude |-> 340639, longitude |-> -1183592],
    [id |-> "mock-5", title |-> "Rooftop Bar at The Standard",
     category |-> "bars", latitude |-> 340487, longitude |-> -1182573] >>

\* provider-native ids; both providers use the same ones
NativeIds == {"a", "b"}

\* an optional field of an upstream item: <<value>>, or Absent
Absent == <<>>

\* items of a Ticketmaster response, by native id: `a` has a venue location
\* and a classification, `b` has neither
TicketmasterItem(nid) ==
    IF nid = "a"
    THEN [id |-> "a", name |-> "Clippers vs Suns",
          classifications |->
              << << [segment |-> <<"Sports">>, genre |-> <<"Basketball">>,
                     subGenre |-> Absent] >> >>,
          location |-> [latitude |-> <<340430>>, longitude |-> <<-1182673>>]]
    ELSE [id |-> nid, name |-> "Comedy Night",
          classifications |-> Absent,
          location |-> [latitude |-> Absent, longitude |-> Absent]]

\* businesses of a Yelp response, by native id
YelpBusiness(nid) ==
    IF nid = "a"
    THEN [id |-> "a", name |-> "Taco Stand",
          coordinates |-> [latitude |-> 340509, longitude |-> -1182489]]
    ELSE [id |-> nid, name |-> "Sky Lounge",
          coordinates |-> [latitude |-> 340487, longitude |-> -1182573]]

\* the lists of native ids one upstream response can carry
ItemLists == SeqsUpTo(NativeIds, MaxItems)

\* what an outbound HTTP call can come back with
\*   networkError  fetch() rejects
\*   non2xx        response.ok is false
\*   badJson       response.json() rejects
\*   noList        the JSON has no _embedded.events / businesses
\*   badItem       an item lacks a field the mapping dereferences
\*   ok            a list of well-formed items
FailureKinds == {"networkError", "non2xx", "badJson", "noList", "badItem"}
Outcomes ==
    [kind : FailureKinds, items : {<<>>}] \cup [kind : {"ok"}, items : ItemLists]
NoReply == [kind |-> "none", items |-> <<>>]

\* the kinds that make a statement inside the adapter's try block throw
ThrowingKinds == {"networkError", "badJson", "badItem"}


(***************************************************************************)
(* Category mapping of the Ticketmaster adapter                            *)
(***************************************************************************)
\* the names a segment, genre, subGenre, category or subcategory of an upstream
\* item has in the model
ClassificationNames ==
    {"", "Sports", "Arts & Theatre", "Music", "Basketball", "Theatre", "Fine Art",
     "Martial Arts", "Motorsports/Racing", "Food & Drink", "Nightlife",
     "Sports & Fitness", "Visual Arts", "Comedy", "Wine Bar"}

\* String.prototype.toLowerCase on the names of the model
ToLowerCase(s) ==
    CASE s = "Sports" -> "sports"
      [] s = "Arts & Theatre" -> "arts & theatre"
      [] s = "Basketball" -> "basketball"
      [] s = "Music" -> "music"
      [] s = "Theatre" -> "theatre"
      [] s = "Fine Art" -> "fine art"
      [] s = "Martial Arts" -> "martial arts"
      [] s = "Motorsports/Racing" -> "motorsports/racing"
      [] s = "Food & Drink" -> "food & drink"
      [] s = "Nightlife" -> "nightlife"
      [] s = "Sports & Fitness" -> "sports & fitness"
      [] s = "Visual Arts" -> "visual arts"
      [] s = "Comedy" -> "comedy"
      [] s = "Wine Bar" -> "wine bar"
      [] OTHER -> s

\* String.prototype.includes for the needles the mappers look for
Includes(s, needle) ==
    needle \in (CASE s = "sports" -> {"sport", "sports"}
                  [] s = "motorsports/racing" -> {"sport", "sports"}
                  [] s = "sports & fitness" -> {"sport", "sports", "fitness"}
                  [] s = "arts & theatre" -> {"art", "arts", "theatre"}
                  [] s = "fine art" -> {"art"}
                  [] s = "martial arts" -> {"art", "arts"}
                  [] s = "visual arts" -> {"art", "arts"}
                  [] s = "theatre" -> {"theatre"}
                  [] s = "music" -> {"music"}
                  [] s = "food & drink" -> {"food", "drink"}
                  [] s = "nightlife" -> {"nightlife"}
                  [] s = "wine bar" -> {"bar"}
                  [] OTHER -> {})

\* x?.name?.toLowerCase() || "" on an optional name
LowerOrEmpty(name) == IF name = Absent THEN "" ELSE ToLowerCase(name[1])

\* mutant: with no keyword found the lower-cased genre is returned
MapTicketmasterCategoryGenre(classifications) ==
    IF classifications = Absent \/ Len(classifications[1]) = 0 THEN "entertainment"
    ELSE LET segment == LowerOrEmpty(classifications[1][1].segment)
             genre == LowerOrEmpty(classifications[1][1].genre)
         IN  IF segment = "sports" \/ Includes(genre, "sport") THEN "sports"
             ELSE IF \/ segment = "arts & theatre"
                     \/ Includes(genre, "art")
                     \/ Includes(genre, "theatre") THEN "arts"
             ELSE genre

\* mapTicketmasterCategory(classifications); classifications is Absent (null or
\* not there) or <<the list>>, the names of an entry are Absent or <<name>>
MapTicketmasterCategory(classifications) ==
    IF classifications = Absent \/ Len(classifications[1]) = 0 THEN "entertainment"
    ELSE LET segment == LowerOrEmpty(classifications[1][1].segment)
             genre == LowerOrEmpty(classifications[1][1].genre)
         IN  IF segment = "sports" \/ Includes(genre, "sport") THEN "sports"
             ELSE IF \/ segment = "arts & theatre"
                     \/ Includes(genre, "art")
                     \/ Includes(genre, "theatre") THEN "arts"
             ELSE "entertainment"

\* mapTicketmasterCategory of the single-provider handler, which also looks at
\* the subGenre
MapTicketmasterCategorySubGenre(classifications) ==
    IF classifications = Absent \/ Len(classifications[1]) = 0 THEN "entertainment"
    ELSE LET segment == LowerOrEmpty(classifications[1][1].segment)
             genre == LowerOrEmpty(classifications[1][1].genre)
             subGenre == LowerOrEmpty(classifications[1][1].subGenre)
         IN  IF segment = "sports" \/ Includes(genre, "sport") THEN "sports"
             ELSE IF \/ segment = "arts & theatre"
                     \/ Includes(genre, "art")
                     \/ Includes(genre, "theatre") THEN "arts"
             ELSE IF Includes(genre, "food") \/ Includes(genre, "culinary") THEN "food"
             ELSE IF \/ Includes(genre, "club") \/ Includes(genre, "nightlife")
                     \/ Includes(genre, "bar")
                     \/ Includes(subGenre, "club") \/ Includes(subGenre, "nightlife")
                     \/ Includes(subGenre, "bar") THEN "bars"
             ELSE "entertainment"

\* categorizeEventbriteEvent(event) of the three-provider handler
CategorizeEventbriteEvent(event) ==
    LET category == LowerOrEmpty(event.category)
        subcategory == LowerOrEmpty(event.subcategory)
    IN  IF Includes(category, "music") \/ Includes(category, "entertainment")
        THEN "entertainment"
        ELSE IF Includes(category, "food") \/ Includes(category, "drink") THEN "food"
        ELSE IF Includes(category, "sports") \/ Includes(category, "fitness") THEN "sports"
        ELSE IF Includes(category, "arts") \/ Includes(category, "culture") THEN "arts"
        ELSE IF Includes(subcategory, "nightlife") \/ Includes(subcategory, "bar") THEN "bars"
        ELSE "entertainment"

(***************************************************************************)
(* Mapping of upstream items to events                                     *)
(***************************************************************************)
\* mutant: the Ticketmaster adapter builds its ids with the Yelp adapter's tag
TicketmasterEventYelpTag(item) ==
    [id |-> "yelp-" \o item.id,
     title |-> item.name,
     category |-> MapTicketmasterCategory(item.classifications),
     latitude |-> IF item.location.latitude # Absent
                  THEN item.location.latitude[1] ELSE CityCenterLat,
     longitude |-> IF item.location.longitude # Absent
                   THEN item.location.longitude[1] ELSE CityCenterLng]

\* the callback of data._embedded.events.map in fetchTicketmasterEvents
TicketmasterEvent(item) ==
    [id |-> "tm-" \o item.id,
     title |-> item.name,
     category |-> MapTicketmasterCategory(item.classifications),
     latitude |-> IF item.location.latitude # Absent
                  THEN item.location.latitude[1] ELSE CityCenterLat,
     longitude |-> IF item.location.longitude # Absent
                   THEN item.location.longitude[1] ELSE CityCenterLng]

\* the searches of fetchYelpEvents, in the order they are issued
YelpSearches == <<
    [category |-> "restaurants", eventCategory |-> "food"],
    [category |-> "bars,nightlife", eventCategory |-> "bars"] >>

\* the callback of data.businesses.map in fetchYelpEvents
YelpEvent(business, search) ==
    [id |-> "yelp-" \o business.id,
     title |-> business.name,
     category |-> search.eventCategory,
     latitude |-> business.coordinates.latitude,
     longitude |-> business.coordinates.longitude]

\* the events of a well-formed Ticketmaster response
TicketmasterEventsOf(items) ==
    [i \in 1..Len(items) |-> TicketmasterEvent(TicketmasterItem(items[i]))]

\* the events of a well-formed Yelp response to one search
YelpEventsOf(items, search) ==
    [i \in 1..Len(items) |-> YelpEvent(YelpBusiness(items[i]), search)]

(***************************************************************************)
(* Enrichment: parking                                                     *)
(***************************************************************************)
\* mutant: the case "bars" does not fall through from "food"
GetParkingInfoBarsApart(category) ==
    CASE category = "sports" ->
            [available |-> TRUE, cost |-> "$20-40",
             locations |-> <<"Stadium parking", "Street parking nearby">>]
      [] category = "entertainment" ->
            [available |-> TRUE, cost |-> "$10-25",
             locations |-> <<"Venue parking", "Public lots">>]
      [] category = "food" ->
            [available |-> TRUE, cost |-> "Free-$15",
             locations |-> <<"Street parking", "Nearby lots">>]
      [] category = "arts" ->
            [available |-> TRUE, cost |-> "$5-15",
             locations |-> <<"Museum parking", "Street parking">>]
      [] OTHER -> [available |-> TRUE, cost |-> "Varies"]

\* getParkingInfo(category)
GetParkingInfo(category) ==
    CASE category = "sports" ->
            [available |-> TRUE, cost |-> "$20-40",
             locations |-> <<"Stadium parking", "Street parking nearby">>]
      [] category = "entertainment" ->
            [available |-> TRUE, cost |-> "$10-25",
             locations |-> <<"Venue parking", "Public lots">>]
      [] category \in {"food", "bars"} ->
            [available |-> TRUE, cost |-> "Free-$15",
             locations |-> <<"Street parking", "Nearby lots">>]
      [] category = "arts" ->
            [available |-> TRUE, cost |-> "$5-15",
             locations |-> <<"Museum parking", "Street parking">>]
      [] OTHER -> [available |-> TRUE, cost |-> "Varies"]


(***************************************************************************)
(* Enrichment: nearby transit                                              *)
(* The code computes the haversine distance in double precision.  The      *)
(* model computes it in integer feet with the planar form of the same      *)
(* formula at the latitude of Los Angeles (cos^2 of 34.05 degrees is 0.69, *)
(* 1e-4 degree of arc on a sphere of radius 3959 miles is 36.48 feet); on  *)
(* the coordinates of the model it differs from the haversine distance by  *)
(* at most 3 feet and selects the same stations in the same order.         *)
(***************************************************************************)
\* metroStations
MetroStations == <<
    [name |-> "Union Station", lat |-> 340560, lng |-> -1182349, type |-> "metro"],
    [name |-> "Hollywood/Vine", lat |-> 341016, lng |-> -1183267, type |-> "metro"],
    [name |-> "7th St/Metro Center", lat |-> 340485, lng |-> -1182587, type |-> "metro"],
    [name |-> "Pershing Square", lat |-> 340489, lng |-> -1182513, type |-> "metro"],
    [name |-> "Civic Center", lat |-> 340570, lng |-> -1182446, type |-> "metro"] >>

\* feet in a mile: distance * 5280
FeetPerMile == 5280
\* the radius of the filter, distanceNum < 2 (miles), in feet
TransitRadiusFeet == 10560
\* slice(0, 2)
MaxTransit == 2

\* the largest r in lo..hi with r * r <= n, by bisection
ISqrtBetween[n \in Nat, lo \in Nat, hi \in Nat] ==
    IF lo >= hi THEN lo
    ELSE LET mid == (lo + hi + 1) \div 2
         IN  IF mid * mid <= n THEN ISqrtBetween[n, mid, hi]
             ELSE ISqrtBetween[n, lo, mid - 1]

\* Math.sqrt, rounded down
ISqrt(n) == ISqrtBetween[n, 0, 46340]

\* getDistanceInMiles(lat1, lng1, lat2, lng2), in feet
GetDistanceInFeet(lat1, lng1, lat2, lng2) ==
    LET dLat == lat2 - lat1
        dLng == lng2 - lng1
        a == 100 * dLat * dLat + 69 * dLng * dLng
    IN  (ISqrt(a) * 3648) \div 1000

\* distance < 1 ? `${(distance * 5280).toFixed(0)} ft` : `${distance.toFixed(1)} mi`
FormatDistance(feet) ==
    IF feet < FeetPerMile THEN ToString(feet) \o " ft"
    ELSE LET tenths == (feet * 10 + FeetPerMile \div 2) \div FeetPerMile
         IN  ToString(tenths \div 10) \o "." \o ToString(tenths % 10) \o " mi"

RECURSIVE InsertByDistance(_, _)
\* s, sorted by distanceNum, with x put after the entries that are not farther
InsertByDistance(s, x) ==
    IF s = <<>> THEN <<x>>
    ELSE IF x.distanceNum < Head(s).distanceNum THEN <<x>> \o s
    ELSE <<Head(s)>> \o InsertByDistance(Tail(s), x)

RECURSIVE SortByDistance(_)
\* Array.prototype.sort((a, b) => a.distanceNum - b.distanceNum): stable
SortByDistance(s) ==
    IF s = <<>> THEN <<>>
    ELSE InsertByDistance(SortByDistance(SubSeq(s, 1, Len(s) - 1)), s[Len(s)])

\* slice(0, n)
SliceFirst(s, n) == SubSeq(s, 1, IF Len(s) < n THEN Len(s) ELSE n)

\* withDistance of getNearestTransit
WithDistance(latitude, longitude) ==
    [i \in 1..Len(MetroStations) |->
        LET station == MetroStations[i]
            distance == GetDistanceInFeet(latitude, longitude, station.lat, station.lng)
        IN  [type |-> station.type, station |-> station.name,
             distance |-> FormatDistance(distance), distanceNum |-> distance]]

\* mutant: the filter lets every station through
InRadiusAny(s) == s.distanceNum >= 0

\* filter(s => s.distanceNum < 2)
InRadius(s) == s.distanceNum < TransitRadiusFeet

\* getNearestTransit(latitude, longitude)
GetNearestTransit(latitude, longitude) ==
    SliceFirst(SortByDistance(SelectSeq(WithDistance(latitude, longitude), InRadius)),
               MaxTransit)

\* the coordinates an event of the model can have
KnownCoordinates ==
    {<<MOCK_EVENTS[i].latitude, MOCK_EVENTS[i].longitude>> : i \in 1..Len(MOCK_EVENTS)}
    \cup {<<TicketmasterEvent(TicketmasterItem(n)).latitude,
            TicketmasterEvent(TicketmasterItem(n)).longitude>> : n \in NativeIds}
    \cup {<<YelpBusiness(n).coordinates.latitude,
            YelpBusiness(n).coordinates.longitude>> : n \in NativeIds}

\* getNearestTransit on the coordinates of the model, computed once
NearestTransitTable ==
    {[at |-> c, transit |-> GetNearestTransit(c[1], c[2])] : c \in KnownCoordinates}

\* the value of getNearestTransit(latitude, longitude), from the table
NearestTransit(latitude, longitude) ==
    (CHOOSE r \in NearestTransitTable : r.at = <<latitude, longitude>>).transit

\* mutant: the enhanced events come out in reverse order
EnhanceEventsReversed(events) ==
    [i \in 1..Len(events) |->
        [parkingInfo |-> GetParkingInfo(events[Len(events) + 1 - i].category),
         nearbyTransit |-> NearestTransit(events[Len(events) + 1 - i].latitude,
                                          events[Len(events) + 1 - i].longitude)]
        @@ events[Len(events) + 1 - i]]

\* enhanceEvents(events): { ...event, parkingInfo, nearbyTransit }
EnhanceEvents(events) ==
    [i \in 1..Len(events) |->
        [parkingInfo |-> GetParkingInfo(events[i].category),
         nearbyTransit |-> NearestTransit(events[i].latitude, events[i].longitude)]
        @@ events[i]]

(***************************************************************************)
(* Enrichment: statistics and trending                                     *)
(***************************************************************************)
\* the values Math.floor(Math.random() * 1000) and Math.floor(Math.random() * 100)
\* are drawn from: a quiet and a popular start
SeedStats == {[views |-> 0, favorites |-> 0], [views |-> 40, favorites |-> 6]}

IdsOf(events) == {events[i].id : i \in 1..Len(events)}

\* the ids getEventStats has to initialize for a batch
Unseeded(stats, events) == IdsOf(events) \ DOMAIN stats

\* eventStats after getEventStats has run for every event of a batch;
\* seeds gives the random initial values of the ids not yet in the map
StatsAfterLookup(stats, seeds) == stats @@ seeds

\* mutant: the weight of 10 is put on the views
CalculateTrendingScoreSwapped(views, favorites) == (views * 10) + favorites

\* calculateTrendingScore(views, favorites)
CalculateTrendingScore(views, favorites) == (favorites * 10) + views

\* scores.reduce((a, b) => a + b, 0)
SumSeq[s \in Seq(Int)] == IF s = <<>> THEN 0 ELSE Head(s) + SumSeq[Tail(s)]

\* markTrendingEvents(events), with every id of the batch in stats;
\* score > (sum / n) * 1.5 is compared as 2 * n * score > 3 * sum
MarkTrendingEvents(events, stats) ==
    LET scores == [i \in 1..Len(events) |->
                     CalculateTrendingScore(stats[events[i].id].views,
                                            stats[events[i].id].favorites)]
        total == SumSeq[scores]
        n == Len(scores)
    IN  [i \in 1..Len(events) |->
            [viewCount |-> stats[events[i].id].views,
             favoriteCount |-> stats[events[i].id].favorites,
             isTrending |-> 2 * n * scores[i] > 3 * total]
            @@ events[i]]


(***************************************************************************)
(* Promise.all over [fetchTicketmasterEvents(), fetchYelpEvents()]         *)
(***************************************************************************)
\* the adapters in the order of the array literal handed to Promise.all
Adapters == <<"ticketmaster", "yelp">>
AdapterIndex(name) == CHOOSE i \in 1..Len(Adapters) : Adapters[i] = name

Resolved(list) == [status |-> "resolved", result |-> list]
Rejected == [status |-> "rejected", result |-> <<>>]

\* mutant: results are collected in the order the promises settle
SlotByArrival(idx, settled) == Cardinality(settled) + 1

\* the slot of the result array a promise's value is stored in: its index
\* in the input array
ResultSlot(idx, settled) == idx

\* mutant: the join is over as soon as one promise has resolved
AnySettled(settled) == settled # {}

\* Promise.all fulfils when every input promise has resolved
AllSettled(settled) == settled = 1..Len(Adapters)

PromiseAllInit ==
    [state |-> "pending", values |-> [i \in 1..Len(Adapters) |-> <<>>], settled |-> {}]

\* the reaction of Promise.all to input promise number idx settling
PromiseAllSettle(p, idx, settlement) ==
    IF p.state # "pending" THEN p
    ELSE IF settlement.status = "rejected" THEN [p EXCEPT !.state = "rejected"]
    ELSE LET settled == p.settled \cup {idx}
         IN  [state |-> IF AllSettled(settled) THEN "fulfilled" ELSE "pending",
              values |-> [p.values EXCEPT ![ResultSlot(idx, p.settled)] = settlement.result],
              settled |-> settled]

(***************************************************************************)
(* Provider adapters                                                       *)
(***************************************************************************)
\* no FavoritesProvider is mounted (the server side on its own)
FavoritesUnmounted == [load |-> "unmounted"]

\* replies with the answer to call number i of an adapter written down
RecordReply(replies, i, reply) ==
    IF i <= Len(replies) THEN [replies EXCEPT ![i] = reply] ELSE Append(replies, reply)

\* an adapter call that has not been made; replies lists what the adapter's
\* HTTP calls came back with, in the order the adapter issued them
AdapterIdle ==
    [status |-> "idle", call |-> "none", reply |-> NoReply, last |-> "none",
     search |-> 0, allEvents |-> <<>>, result |-> <<>>, replies |-> <<>>]

\* the body of the try block, run to its end on the reply of the HTTP call:
\* either a return value or a throw
Returns(list) == [throws |-> FALSE, value |-> list]
Throws == [throws |-> TRUE, value |-> <<>>]

\* mutant: the adapter has no catch, the error rejects its promise
CatchRethrows(completion) ==
    IF completion.throws THEN Rejected ELSE Resolved(completion.value)

\* mutant: the adapter falls back to the mock events on its own
TicketmasterCatchMock(completion) ==
    IF completion.throws THEN Resolved(MOCK_EVENTS) ELSE Resolved(completion.value)

\* catch (error) { console.error(...); return []; } of fetchTicketmasterEvents
TicketmasterCatch(completion) ==
    IF completion.throws THEN Resolved(<<>>) ELSE Resolved(completion.value)

\* catch (error) { console.error(...); return []; } of fetchYelpEvents
YelpCatch(completion) ==
    IF completion.throws THEN Resolved(<<>>) ELSE Resolved(completion.value)

\* the try block of fetchTicketmasterEvents from `await fetch` on
TicketmasterTry(reply) ==
    IF reply.kind \in ThrowingKinds THEN Throws
    ELSE IF reply.kind = "non2xx" THEN Returns(<<>>)
    ELSE IF reply.kind = "noList" THEN Returns(<<>>)
    ELSE Returns(TicketmasterEventsOf(reply.items))

\* mutant: the Yelp adapter tests the Ticketmaster key
YelpKeyFromTicketmaster(e) == e.ticketmaster

\* if (!apiKey) of fetchTicketmasterEvents, negated
TicketmasterKeySet(e) == e.ticketmaster

\* if (!apiKey) of fetchYelpEvents, negated
YelpKeySet(e) == e.yelp

\* the target of the fetch of one Yelp search
YelpUrl(i) == "yelp:" \o YelpSearches[i].category
TicketmasterUrl == "ticketmaster"

\* fetchTicketmasterEvents() up to its first await or its return
TicketmasterStart(e) ==
    IF ~TicketmasterKeySet(e)
    THEN [AdapterIdle EXCEPT !.status = "resolved", !.last = "noKey"]
    ELSE [AdapterIdle EXCEPT !.status = "pending", !.call = "inFlight"]

\* fetchYelpEvents() up to its first await or its return
YelpStart(e) ==
    IF ~YelpKeySet(e)
    THEN [AdapterIdle EXCEPT !.status = "resolved", !.last = "noKey"]
    ELSE [AdapterIdle EXCEPT !.status = "pending", !.call = "inFlight", !.search = 1]

\* mutant: a search that was not answered with a list is sent again
YelpRetrySearch(i, kind) == IF kind = "ok" THEN i + 1 ELSE i

\* the search the for-of loop goes on with (continue, or the end of the body)
YelpNextSearch(i, kind) == i + 1

\* mutant: a search that was not answered with a list empties allEvents
YelpCollectedReset(allEvents, reply, i) ==
    IF reply.kind = "ok"
    THEN allEvents \o YelpEventsOf(reply.items, YelpSearches[i])
    ELSE <<>>

\* allEvents after the body of the loop has run on a reply that does not throw
YelpCollected(allEvents, reply, i) ==
    IF reply.kind = "ok"
    THEN allEvents \o YelpEventsOf(reply.items, YelpSearches[i])
    ELSE allEvents

\* the settlements of the adapters that returned without a fetch, in call order
RECURSIVE SettleAll(_, _, _)
SettleAll(p, states, i) ==
    IF i > Len(states) THEN p
    ELSE SettleAll(IF states[i].status = "resolved"
                   THEN PromiseAllSettle(p, i, Resolved(states[i].result))
                   ELSE p,
                   states, i + 1)


(***************************************************************************)
(* The GET /api/events handler                                             *)
(***************************************************************************)
\* mutant: the fallback serves the stored mock events as they are
MockAsStored(stats) == MOCK_EVENTS

\* enhanceEvents(MOCK_EVENTS)
EnhancedMock == EnhanceEvents(MOCK_EVENTS)

\* markTrendingEvents(enhanceEvents(MOCK_EVENTS))
MockEnriched(stats) == MarkTrendingEvents(EnhancedMock, stats)

\* mutant: no fallback, the live list is served even when it is empty
LiveOnly(eventsWithTrending, fallback) == eventsWithTrending

\* eventsWithTrending.length > 0 ? eventsWithTrending : <the mock fallback>
LiveOrMock(eventsWithTrending, fallback) ==
    IF Len(eventsWithTrending) > 0 THEN eventsWithTrending ELSE fallback

\* res.json(body): one response, status 200 unless set otherwise
Json(body) == [status |-> 200, body |-> body]

\* the body sent at the end of the try block
LiveBody(events, ticketmasterEvents, yelpEvents) ==
    [events |-> events,
     sources |-> [ticketmaster |-> Len(ticketmasterEvents),
                  yelp |-> Len(yelpEvents),
                  total |-> Len(events)]]

\* the body sent by the catch block
CatchBody(events) ==
    [events |-> events, sources |-> [mock |-> Len(MOCK_EVENTS)]]

\* app.get("/api/events", ...) up to `await Promise.all([...])`: both adapters
\* are called, each runs to its first await or to its return
Request ==
    /\ pc = "idle"
    /\ LET t == TicketmasterStart(env)
           y == YelpStart(env)
       IN  /\ tm' = t
           /\ yelp' = y
           /\ promiseAll' = SettleAll(PromiseAllInit, <<t, y>>, 1)
           /\ httpCalls' = (IF t.call = "inFlight" THEN {TicketmasterUrl} ELSE {})
                           \cup (IF y.call = "inFlight" THEN {YelpUrl(1)} ELSE {})
           /\ settleOrder' = SelectSeq(Adapters,
                                LAMBDA a : <<t, y>>[AdapterIndex(a)].status = "resolved")
    /\ pc' = "awaitAll"
    /\ UNCHANGED <<env, eventStats, responses, dedupVars, auxVars>>

\* the Ticketmaster API answers the call in flight (or the call fails)
TicketmasterReply(outcome) ==
    /\ tm.call = "inFlight"
    /\ tm' = [tm EXCEPT !.call = "arrived", !.reply = outcome]
    /\ UNCHANGED <<env, pc, yelp, promiseAll, eventStats, responses, httpCalls,
                   settleOrder, dedupVars, auxVars>>

\* fetchTicketmasterEvents resumes after its await and runs to its return
TicketmasterContinue ==
    /\ tm.call = "arrived"
    /\ LET settlement == TicketmasterCatch(TicketmasterTry(tm.reply))
       IN  /\ tm' = [tm EXCEPT !.call = "none", !.reply = NoReply,
                               !.last = tm.reply.kind,
                               !.replies = RecordReply(@, 1, tm.reply),
                               !.status = settlement.status,
                               !.result = settlement.result]
           /\ promiseAll' = PromiseAllSettle(promiseAll, AdapterIndex("ticketmaster"),
                                             settlement)
    /\ settleOrder' = Append(settleOrder, "ticketmaster")
    /\ UNCHANGED <<env, pc, yelp, eventStats, responses, httpCalls, dedupVars, auxVars>>

\* the Yelp API answers the call in flight (or the call fails)
YelpReply(outcome) ==
    /\ yelp.call = "inFlight"
    /\ yelp' = [yelp EXCEPT !.call = "arrived", !.reply = outcome]
    /\ UNCHANGED <<env, pc, tm, promiseAll, eventStats, responses, httpCalls,
                   settleOrder, dedupVars, auxVars>>

\* fetchYelpEvents resumes after its await: the error is caught and the adapter
\* returns, or the loop goes on with its next search, or the loop is over and
\* the adapter returns allEvents
YelpContinue ==
    /\ yelp.call = "arrived"
    /\ LET reply == yelp.reply
           collected == YelpCollected(yelp.allEvents, reply, yelp.search)
           next == YelpNextSearch(yelp.search, reply.kind)
       IN  IF reply.kind \notin ThrowingKinds /\ next <= Len(YelpSearches)
           THEN /\ yelp' = [yelp EXCEPT !.call = "inFlight", !.reply = NoReply,
                                        !.last = reply.kind,
                                        !.replies = RecordReply(@, yelp.search, reply),
                                        !.search = next, !.allEvents = collected]
                /\ httpCalls' = httpCalls \cup {YelpUrl(next)}
                /\ UNCHANGED <<promiseAll, settleOrder>>
           ELSE LET settlement ==
                        YelpCatch(IF reply.kind \in ThrowingKinds THEN Throws
                                  ELSE Returns(collected))
                IN  /\ yelp' = [yelp EXCEPT !.call = "none", !.reply = NoReply,
                                            !.last = reply.kind,
                                            !.replies = RecordReply(@, yelp.search, reply),
                                            !.allEvents = collected,
                                            !.status = settlement.status,
                                            !.result = settlement.result]
                    /\ promiseAll' = PromiseAllSettle(promiseAll, AdapterIndex("yelp"),
                                                      settlement)
                    /\ settleOrder' = Append(settleOrder, "yelp")
                    /\ UNCHANGED httpCalls
    /\ UNCHANGED <<env, pc, tm, eventStats, responses, dedupVars, auxVars>>

\* the handler resumes after `await Promise.all` and runs the try block to its
\* end: collect, deduplicate, enhance, mark trending, fall back, res.json.
\* markTrendingEvents keeps the length of its argument, so the mock events are
\* looked up in eventStats exactly when the live list is empty.
Respond ==
    /\ pc = "awaitAll"
    /\ promiseAll.state = "fulfilled"
    /\ pc' = "done"
    /\ \E ticketmasterEvents \in {promiseAll.values[1]}, yelpEvents \in {promiseAll.values[2]} :
       \E allEvents \in {ticketmasterEvents \o yelpEvents} :
       \E uniqueEvents \in {DeduplicateEvents(allEvents)} :
       \E enhancedEvents \in {EnhanceEvents(uniqueEvents)} :
       \E lookedUp \in {IF Len(enhancedEvents) > 0 THEN enhancedEvents ELSE MOCK_EVENTS} :
       \E seeds \in [Unseeded(eventStats, lookedUp) -> SeedStats] :
       \E stats \in {StatsAfterLookup(eventStats, seeds)} :
          /\ eventStats' = stats
          /\ \E eventsWithTrending \in {MarkTrendingEvents(enhancedEvents, stats)} :
             \E events \in {LiveOrMock(eventsWithTrending, MockEnriched(stats))} :
                responses' = Append(responses,
                    Json(LiveBody(events, ticketmasterEvents, yelpEvents)))
    /\ UNCHANGED <<env, tm, yelp, promiseAll, httpCalls, settleOrder, dedupVars, auxVars>>

\* the catch block of the handler: the awaited Promise.all rejected, or a
\* statement of the try block threw before eventStats was touched
Catch ==
    /\ pc = "awaitAll"
    /\ promiseAll.state # "pending"
    /\ pc' = "done"
    /\ \E seeds \in [Unseeded(eventStats, MOCK_EVENTS) -> SeedStats] :
       \E stats \in {StatsAfterLookup(eventStats, seeds)} :
          /\ eventStats' = stats
          /\ responses' = Append(responses, Json(CatchBody(MockEnriched(stats))))
    /\ UNCHANGED <<env, tm, yelp, promiseAll, httpCalls, settleOrder, dedupVars, auxVars>>

(***************************************************************************)
(* Specifications                                                          *)
(***************************************************************************)
InitRouteIdle ==
    /\ pc = "idle"
    /\ tm = AdapterIdle
    /\ yelp = AdapterIdle
    /\ promiseAll = PromiseAllInit
    /\ eventStats = <<>>
    /\ responses = <<>>
    /\ httpCalls = {}
    /\ settleOrder = <<>>

\* no mapper, transit or POST call has been made
InitAuxIdle ==
    /\ mapperInput = <<>>
    /\ mapperOutput = NotCalled
    /\ transitAt = <<>>
    /\ transitOut = NotCalled
    /\ lastPost = NotCalled
    /\ postCount = 0
    /\ eb = AdapterIdle
    /\ fav = FavoritesUnmounted

\* the server is up, no request has been made; the keys are set or not
Init ==
    /\ env \in [ticketmaster : BOOLEAN, yelp : BOOLEAN]
    /\ InitRouteIdle
    /\ InitDedupIdle
    /\ InitAuxIdle

Next ==
    \/ Request
    \/ \E outcome \in Outcomes : TicketmasterReply(outcome)
    \/ TicketmasterContinue
    \/ \E outcome \in Outcomes : YelpReply(outcome)
    \/ YelpContinue
    \/ Respond
    \/ Catch

Spec == Init /\ [][Next]_vars

\* the event loop runs every continuation that is ready, and every outbound
\* call settles
SpecLive ==
    /\ Spec
    /\ WF_vars(\E outcome \in Outcomes : TicketmasterReply(outcome))
    /\ WF_vars(TicketmasterContinue)
    /\ WF_vars(\E outcome \in Outcomes : YelpReply(outcome))
    /\ WF_vars(YelpContinue)
    /\ WF_vars(Respond \/ Catch)

\* deduplicateEvents is about to be called on some list of events
InitDedup ==
    /\ dedupInput \in SeqsUpTo(DedupEvents, MaxLen)
    /\ dedupOutput = NotCalled
    /\ dedupAgain = NotCalled
    /\ env = [ticketmaster |-> FALSE, yelp |-> FALSE]
    /\ InitRouteIdle
    /\ InitAuxIdle

NextDedup ==
    \/ CallDedup /\ UNCHANGED <<routeVars, auxVars>>
    \/ CallDedupAgain /\ UNCHANGED <<routeVars, auxVars>>

SpecDedup == InitDedup /\ [][NextDedup]_vars


(***************************************************************************)
(* SpecCategory: the category mappers on every classification of the model *)
(***************************************************************************)
\* category of type Event
Categories == {"entertainment", "food", "sports", "arts", "bars"}

\* an optional name: not there, or one of the names of the model
OptionalNames == {Absent} \cup {<<n>> : n \in ClassificationNames}

\* an entry of event.classifications of a Ticketmaster item
ClassificationEntries ==
    [segment : OptionalNames, genre : OptionalNames, subGenre : OptionalNames]

\* event.classifications: null or not there, the empty list, a list of one
\* entry, a list of two entries
ClassificationInputs ==
    {Absent, << <<>> >>}
    \cup {<< <<e>> >> : e \in ClassificationEntries}
    \cup {<< <<e, [segment |-> <<"Sports">>, genre |-> <<"Basketball">>,
                  subGenre |-> Absent]>> >> :
            e \in [segment : {Absent, <<"Music">>}, genre : {Absent, <<"Fine Art">>},
                   subGenre : {Absent}]}

\* the fields of an Eventbrite event that categorizeEventbriteEvent reads
EventbriteInputs == [category : OptionalNames, subcategory : OptionalNames]

InitCategory ==
    /\ \/ mapperInput \in [mapper : {"mapTicketmasterCategory",
                                      "mapTicketmasterCategory (subGenre)"},
                            classifications : ClassificationInputs]
       \/ mapperInput \in [mapper : {"categorizeEventbriteEvent"},
                            event : EventbriteInputs]
    /\ mapperOutput = NotCalled
    /\ transitAt = <<>>
    /\ transitOut = NotCalled
    /\ lastPost = NotCalled
    /\ postCount = 0
    /\ eb = AdapterIdle
    /\ fav = FavoritesUnmounted
    /\ env = [ticketmaster |-> FALSE, yelp |-> FALSE]
    /\ InitRouteIdle
    /\ InitDedupIdle

\* category: mapTicketmasterCategory(event.classifications)
CallTicketmasterMapper ==
    /\ mapperOutput = NotCalled
    /\ mapperInput.mapper = "mapTicketmasterCategory"
    /\ mapperOutput' = <<MapTicketmasterCategory(mapperInput.classifications)>>
    /\ UNCHANGED <<mapperInput, transitAt, transitOut, lastPost, postCount, eb, routeVars, dedupVars, fav>>

\* the same call in the single-provider handler
CallTicketmasterSubGenreMapper ==
    /\ mapperOutput = NotCalled
    /\ mapperInput.mapper = "mapTicketmasterCategory (subGenre)"
    /\ mapperOutput' = <<MapTicketmasterCategorySubGenre(mapperInput.classifications)>>
    /\ UNCHANGED <<mapperInput, transitAt, transitOut, lastPost, postCount, eb, routeVars, dedupVars, fav>>

\* category: categorizeEventbriteEvent(event)
CallEventbriteMapper ==
    /\ mapperOutput = NotCalled
    /\ mapperInput.mapper = "categorizeEventbriteEvent"
    /\ mapperOutput' = <<CategorizeEventbriteEvent(mapperInput.event)>>
    /\ UNCHANGED <<mapperInput, transitAt, transitOut, lastPost, postCount, eb, routeVars, dedupVars, fav>>

NextCategory ==
    \/ CallTicketmasterMapper
    \/ CallTicketmasterSubGenreMapper
    \/ CallEventbriteMapper

SpecCategory == InitCategory /\ [][NextCategory]_vars

(***************************************************************************)
(* SpecTransit: getNearestTransit on the coordinates of a grid over Los    *)
(* Angeles, on the locations of the stations and on far-away places        *)
(***************************************************************************)
\* the grid has (GridSteps + 1) * (GridSteps + 1) points, 0.015 degree apart,
\* from 34.0000, -118.3500 to the north-east
GridSteps == 8

StationCoordinates ==
    {<<MetroStations[i].lat, MetroStations[i].lng>> : i \in 1..Len(MetroStations)}

\* places three miles and more from every station
FarCoordinates == {<<342000, -1185000>>, <<339000, -1181000>>, <<341500, -1180500>>}

TransitCoordinates ==
    {<<340000 + 150 * i, 150 * j - 1183500>> : i \in 0..GridSteps, j \in 0..GridSteps}
    \cup StationCoordinates \cup FarCoordinates \cup KnownCoordinates

InitTransit ==
    /\ transitAt \in TransitCoordinates
    /\ transitOut = NotCalled
    /\ mapperInput = <<>>
    /\ mapperOutput = NotCalled
    /\ lastPost = NotCalled
    /\ postCount = 0
    /\ eb = AdapterIdle
    /\ fav = FavoritesUnmounted
    /\ env = [ticketmaster |-> FALSE, yelp |-> FALSE]
    /\ InitRouteIdle
    /\ InitDedupIdle

\* nearbyTransit: getNearestTransit(event.latitude, event.longitude)
CallNearestTransit ==
    /\ transitOut = NotCalled
    /\ transitOut' = <<GetNearestTransit(transitAt[1], transitAt[2])>>
    /\ UNCHANGED <<transitAt, mapperInput, mapperOutput, lastPost, postCount, eb, routeVars, dedupVars, fav>>

NextTransit == CallNearestTransit

SpecTransit == InitTransit /\ [][NextTransit]_vars

(***************************************************************************)
(* SpecStats: GET /api/events requests one after the other, with           *)
(* POST /api/events/:id/view and POST /api/events/:id/favorite requests    *)
(* served at any moment in between (each POST handler runs to its end      *)
(* without an await)                                                       *)
(***************************************************************************)
\* POST requests of a behaviour
MaxPosts == 2

\* the :id of the POST requests: the id of a mock event and the id of a
\* Ticketmaster event, which is the id of no event when the key is not set
PostIds == {"mock-1", "tm-a"}

\* the GET /api/events request is in its concurrent fetch phase: it awaits
\* Promise.all and a call of an adapter has not returned yet
FetchPhase ==
    /\ pc = "awaitAll"
    /\ (tm.status = "pending" \/ yelp.status = "pending")

\* mutant: the map keeps no entry but the one looked up
StatsAfterGetAlone(stats, id, seed) ==
    id :> (IF id \in DOMAIN stats THEN stats[id] ELSE seed)

\* eventStats after getEventStats(id): a missing id is set to the random seed
StatsAfterGet(stats, id, seed) ==
    IF id \in DOMAIN stats THEN stats ELSE stats @@ (id :> seed)

\* mutant: un-favoriting leaves the counter as it is
FavoriteDeltaNoDecrement(favorited) == IF favorited THEN 1 ELSE 0

\* favorited ? 1 : -1
FavoriteDelta(favorited) == IF favorited THEN 1 ELSE -1

\* app.post("/api/events/:id/view", ...)
PostView(id) ==
    /\ postCount < MaxPosts
    /\ postCount' = postCount + 1
    /\ \E seed \in (IF id \in DOMAIN eventStats THEN {eventStats[id]} ELSE SeedStats) :
       \E stats \in {StatsAfterGet(eventStats, id, seed)} :
       \E views \in {stats[id].views + 1} :
          /\ eventStats' = [stats EXCEPT ![id].views = views]
          /\ lastPost' = << [route |-> "view", id |-> id, favorited |-> Absent,
                            fetchPhase |-> FetchPhase,
                            body |-> [success |-> TRUE, views |-> views]] >>
    /\ UNCHANGED <<env, pc, tm, yelp, promiseAll, responses, httpCalls, settleOrder,
                   mapperInput, mapperOutput, transitAt, transitOut, eb, dedupVars, fav>>

\* app.post("/api/events/:id/favorite", ...) with body { favorited }
PostFavorite(id, favorited) ==
    /\ postCount < MaxPosts
    /\ postCount' = postCount + 1
    /\ \E seed \in (IF id \in DOMAIN eventStats THEN {eventStats[id]} ELSE SeedStats) :
       \E stats \in {StatsAfterGet(eventStats, id, seed)} :
       \E favorites \in {stats[id].favorites + FavoriteDelta(favorited)} :
          /\ eventStats' = [stats EXCEPT ![id].favorites = favorites]
          /\ lastPost' = << [route |-> "favorite", id |-> id, favorited |-> <<favorited>>,
                            fetchPhase |-> FetchPhase,
                            body |-> [success |-> TRUE, favorites |-> favorites]] >>
    /\ UNCHANGED <<env, pc, tm, yelp, promiseAll, responses, httpCalls, settleOrder,
                   mapperInput, mapperOutput, transitAt, transitOut, eb, dedupVars, fav>>

\* the next GET /api/events request arrives: a new invocation of the handler
\* with a new res; eventStats is what the requests before left
NextRequest ==
    /\ pc = "done"
    /\ pc' = "idle"
    /\ tm' = AdapterIdle
    /\ yelp' = AdapterIdle
    /\ promiseAll' = PromiseAllInit
    /\ responses' = <<>>
    /\ httpCalls' = {}
    /\ settleOrder' = <<>>
    /\ UNCHANGED <<env, eventStats, dedupVars, auxVars>>

\* the Ticketmaster key is set or not (without it every GET is answered with
\* the mock events); the Yelp key is not set
InitStats ==
    /\ env \in [ticketmaster : BOOLEAN, yelp : {FALSE}]
    /\ InitRouteIdle
    /\ InitDedupIdle
    /\ InitAuxIdle

\* what the Ticketmaster API answers in SpecStats: a list of one or two items
StatsOutcomes ==
    {[kind |-> "ok", items |-> <<"a">>], [kind |-> "ok", items |-> <<"a", "b">>]}

NextStats ==
    \/ Request
    \/ \E outcome \in StatsOutcomes : TicketmasterReply(outcome)
    \/ TicketmasterContinue
    \/ Respond
    \/ Catch
    \/ NextRequest
    \/ \E id \in PostIds : PostView(id)
    \/ \E id \in PostIds, favorited \in BOOLEAN : PostFavorite(id, favorited)

SpecStats == InitStats /\ [][NextStats]_vars

(***************************************************************************)
(* SpecThree: one GET /api/events request of the three-provider handler    *)
(* (src/unnamed/part_009): Ticketmaster, Yelp with four category searches, *)
(* Eventbrite; collect, fall back, sort by date, respond.  Its events      *)
(* carry no coordinates to the response that the handler would read, so    *)
(* the model keeps id, title, category and date.                           *)
(***************************************************************************)
\* MOCK_EVENTS of the three-provider handler
MOCK_EVENTS3 == <<
    [id |-> "mock-1", title |-> "Hollywood Bowl Concert",
     category |-> "entertainment", date |-> "Dec 15, 2025"],
    [id |-> "mock-2", title |-> "Grand Central Market",
     category |-> "food", date |-> "Ongoing"] >>

\* the categories fetchYelpEvents searches, in the order of the loop
YelpCategories3 == <<"restaurants", "bars", "nightlife", "foodtrucks">>

\* what an outbound call of the three-provider handler comes back with: a
\* non-2xx status, a network error, an empty list, a list of the item a
Outcomes3 ==
    {[kind |-> "non2xx", items |-> <<>>], [kind |-> "networkError", items |-> <<>>],
     [kind |-> "ok", items |-> <<>>], [kind |-> "ok", items |-> <<"a">>]}

\* the callback of data._embedded.events.map; the item's localDate is
\* 2025-12-20
TicketmasterEvent3(item) ==
    [id |-> "tm-" \o item.id,
     title |-> item.name,
     category |-> MapTicketmasterCategory(item.classifications),
     date |-> "Dec 20, 2025"]

\* the callback of data.businesses.map in the loop over the four categories
YelpEvent3(business, category) ==
    [id |-> "yelp-" \o business.id,
     title |-> business.name,
     category |-> IF category = "bars" \/ category = "nightlife" THEN "bars" ELSE "food",
     date |-> "Ongoing"]

\* an event of an Eventbrite response, by native id; start.local is
\* 2025-12-18
EventbriteItem(nid) ==
    [id |-> nid, name |-> "Art Walk",
     category |-> <<"Visual Arts">>, subcategory |-> Absent]

\* the callback of data.events.map in fetchEventbriteEvents
EventbriteEvent(item) ==
    [id |-> "eb-" \o item.id,
     title |-> item.name,
     category |-> CategorizeEventbriteEvent(item),
     date |-> "Dec 18, 2025"]

\* new Date(date).getTime() of the dates of the model, in days
DateTime(date) ==
    CASE date = "Dec 15, 2025" -> 20437
      [] date = "Dec 18, 2025" -> 20440
      [] date = "Dec 20, 2025" -> 20442

\* the comparator handed to sort: a positive number puts a after b
CompareByDate(a, b) ==
    IF a.date = "Ongoing" THEN 1
    ELSE IF b.date = "Ongoing" THEN -1
    ELSE DateTime(a.date) - DateTime(b.date)

RECURSIVE InsertByDate(_, _)
\* s, sorted, with x put after the entries it does not come before
InsertByDate(s, x) ==
    IF s = <<>> THEN <<x>>
    ELSE IF CompareByDate(x, Head(s)) < 0 THEN <<x>> \o s
    ELSE <<Head(s)>> \o InsertByDate(Tail(s), x)

RECURSIVE StableSortByDate(_)
StableSortByDate(s) ==
    IF s = <<>> THEN <<>>
    ELSE InsertByDate(StableSortByDate(SubSeq(s, 1, Len(s) - 1)), s[Len(s)])

\* the orders finalEvents.sort(...) can leave the list in.  With two Ongoing
\* events the comparator answers 1 both ways, it is not a consistent
\* comparator and the order is implementation-defined: any permutation.
SortedByDate(events) ==
    IF Cardinality({i \in 1..Len(events) : events[i].date = "Ongoing"}) >= 2
    THEN {[i \in 1..Len(events) |-> events[perm[i]]] : perm \in Permutations(1..Len(events))}
    ELSE {StableSortByDate(events)}

\* Promise.all over the three adapters
PromiseAll3Init ==
    [state |-> "pending", values |-> <<<<>>, <<>>, <<>>>>, settled |-> {}]

\* the reaction of Promise.all to input promise number idx settling
PromiseAll3Settle(p, idx, settlement) ==
    IF p.state # "pending" THEN p
    ELSE IF settlement.status = "rejected" THEN [p EXCEPT !.state = "rejected"]
    ELSE LET settled == p.settled \cup {idx}
         IN  [state |-> IF settled = 1..Len(p.values) THEN "fulfilled" ELSE "pending",
              values |-> [p.values EXCEPT ![idx] = settlement.result],
              settled |-> settled]

RECURSIVE SettleAll3(_, _, _)
\* the settlements of the adapters that returned without a fetch, in call order
SettleAll3(p, states, i) ==
    IF i > Len(states) THEN p
    ELSE SettleAll3(IF states[i].status = "resolved"
                    THEN PromiseAll3Settle(p, i, Resolved(states[i].result))
                    ELSE p,
                    states, i + 1)

Yelp3Url(i) == "yelp:" \o YelpCategories3[i]
EventbriteUrl == "eventbrite"

\* fetchEventbriteEvents() up to its first await or its return
EventbriteStart(e) ==
    IF ~e.eventbrite
    THEN [AdapterIdle EXCEPT !.status = "resolved", !.last = "noKey"]
    ELSE [AdapterIdle EXCEPT !.status = "pending", !.call = "inFlight"]

\* app.get("/api/events", ...) up to `await Promise.all([...])`
Request3 ==
    /\ pc = "idle"
    /\ LET t == TicketmasterStart(env)
           y == YelpStart(env)
           b == EventbriteStart(env)
       IN  /\ tm' = t
           /\ yelp' = y
           /\ eb' = b
           /\ promiseAll' = SettleAll3(PromiseAll3Init, <<t, y, b>>, 1)
           /\ httpCalls' = (IF t.call = "inFlight" THEN {TicketmasterUrl} ELSE {})
                           \cup (IF y.call = "inFlight" THEN {Yelp3Url(1)} ELSE {})
                           \cup (IF b.call = "inFlight" THEN {EventbriteUrl} ELSE {})
           /\ settleOrder' = SelectSeq(<<"ticketmaster", "yelp", "eventbrite">>,
                                LAMBDA a : (CASE a = "ticketmaster" -> t
                                              [] a = "yelp" -> y
                                              [] OTHER -> b).status = "resolved")
    /\ pc' = "awaitAll"
    /\ UNCHANGED <<env, eventStats, responses, dedupVars, mapperInput, mapperOutput,
                   transitAt, transitOut, lastPost, postCount, fav>>

\* the Eventbrite API answers the call in flight (or the call fails)
EventbriteReply(outcome) ==
    /\ eb.call = "inFlight"
    /\ eb' = [eb EXCEPT !.call = "arrived", !.reply = outcome]
    /\ UNCHANGED <<routeVars, dedupVars, mapperInput, mapperOutput, transitAt,
                   transitOut, lastPost, postCount, fav>>

\* fetchTicketmasterEvents resumes after its await and runs to its return
TicketmasterContinue3 ==
    /\ tm.call = "arrived"
    /\ LET reply == tm.reply
           settlement ==
               IF reply.kind \in ThrowingKinds THEN Resolved(<<>>)
               ELSE IF reply.kind # "ok" THEN Resolved(<<>>)
               ELSE Resolved([i \in 1..Len(reply.items) |->
                                TicketmasterEvent3(TicketmasterItem(reply.items[i]))])
       IN  /\ tm' = [tm EXCEPT !.call = "none", !.reply = NoReply, !.last = reply.kind,
                               !.replies = RecordReply(@, 1, reply),
                               !.status = settlement.status,
                               !.result = settlement.result]
           /\ promiseAll' = PromiseAll3Settle(promiseAll, 1, settlement)
    /\ settleOrder' = Append(settleOrder, "ticketmaster")
    /\ UNCHANGED <<env, pc, yelp, eventStats, responses, httpCalls, dedupVars, auxVars>>

\* fetchYelpEvents resumes after its await: the error is caught and the
\* adapter returns [], or the loop goes on with the next category, or the loop
\* is over and the adapter returns allEvents
YelpContinue3 ==
    /\ yelp.call = "arrived"
    /\ LET reply == yelp.reply
           collected ==
               IF reply.kind = "ok"
               THEN yelp.allEvents
                    \o [i \in 1..Len(reply.items) |->
                          YelpEvent3(YelpBusiness(reply.items[i]),
                                     YelpCategories3[yelp.search])]
               ELSE yelp.allEvents
           next == yelp.search + 1
       IN  IF reply.kind \notin ThrowingKinds /\ next <= Len(YelpCategories3)
           THEN /\ yelp' = [yelp EXCEPT !.call = "inFlight", !.reply = NoReply,
                                        !.last = reply.kind,
                                        !.replies = RecordReply(@, yelp.search, reply),
                                        !.search = next, !.allEvents = collected]
                /\ httpCalls' = httpCalls \cup {Yelp3Url(next)}
                /\ UNCHANGED <<promiseAll, settleOrder>>
           ELSE LET settlement ==
                        IF reply.kind \in ThrowingKinds THEN Resolved(<<>>)
                        ELSE Resolved(collected)
                IN  /\ yelp' = [yelp EXCEPT !.call = "none", !.reply = NoReply,
                                            !.last = reply.kind,
                                            !.replies = RecordReply(@, yelp.search, reply),
                                            !.allEvents = collected,
                                            !.status = settlement.status,
                                            !.result = settlement.result]
                    /\ promiseAll' = PromiseAll3Settle(promiseAll, 2, settlement)
                    /\ settleOrder' = Append(settleOrder, "yelp")
                    /\ UNCHANGED httpCalls
    /\ UNCHANGED <<env, pc, tm, eventStats, responses, dedupVars, auxVars>>

\* fetchEventbriteEvents resumes after its await and runs to its return
EventbriteContinue ==
    /\ eb.call = "arrived"
    /\ LET reply == eb.reply
           settlement ==
               IF reply.kind \in ThrowingKinds THEN Resolved(<<>>)
               ELSE IF reply.kind # "ok" THEN Resolved(<<>>)
               ELSE Resolved([i \in 1..Len(reply.items) |->
                                EventbriteEvent(EventbriteItem(reply.items[i]))])
       IN  /\ eb' = [eb EXCEPT !.call = "none", !.reply = NoReply, !.last = reply.kind,
                               !.replies = RecordReply(@, 1, reply),
                               !.status = settlement.status,
                               !.result = settlement.result]
           /\ promiseAll' = PromiseAll3Settle(promiseAll, 3, settlement)
    /\ settleOrder' = Append(settleOrder, "eventbrite")
    /\ UNCHANGED <<env, pc, tm, yelp, eventStats, responses, httpCalls, dedupVars,
                   mapperInput, mapperOutput, transitAt, transitOut, lastPost, postCount, fav>>

\* the handler resumes after `await Promise.all` and runs the try block to
\* its end: collect, fall back, sort by date, res.json
Respond3 ==
    /\ pc = "awaitAll"
    /\ promiseAll.state = "fulfilled"
    /\ pc' = "done"
    /\ \E ticketmasterEvents \in {promiseAll.values[1]},
          yelpEvents \in {promiseAll.values[2]},
          eventbriteEvents \in {promiseAll.values[3]} :
       \E allEvents \in {ticketmasterEvents \o yelpEvents \o eventbriteEvents} :
       \E finalEvents \in {IF Len(allEvents) > 0 THEN allEvents ELSE MOCK_EVENTS3} :
       \E sortedEvents \in SortedByDate(finalEvents) :
          responses' = Append(responses,
              Json([events |-> sortedEvents,
                    sources |-> [ticketmaster |-> Len(ticketmasterEvents),
                                 yelp |-> Len(yelpEvents),
                                 eventbrite |-> Len(eventbriteEvents),
                                 total |-> Len(sortedEvents)]]))
    /\ UNCHANGED <<env, tm, yelp, promiseAll, eventStats, httpCalls, settleOrder,
                   dedupVars, auxVars>>

\* the catch block of the handler: a statement of the try block threw
Catch3 ==
    /\ pc = "awaitAll"
    /\ promiseAll.state # "pending"
    /\ pc' = "done"
    /\ responses' = Append(responses,
          Json([events |-> MOCK_EVENTS3, sources |-> [mock |-> Len(MOCK_EVENTS3)]]))
    /\ UNCHANGED <<env, tm, yelp, promiseAll, eventStats, httpCalls, settleOrder,
                   dedupVars, auxVars>>

InitThree ==
    /\ env \in [ticketmaster : BOOLEAN, yelp : BOOLEAN, eventbrite : BOOLEAN]
    /\ InitRouteIdle
    /\ InitDedupIdle
    /\ InitAuxIdle

NextThree ==
    \/ Request3
    \/ \E outcome \in Outcomes3 : TicketmasterReply(outcome)
    \/ TicketmasterContinue3
    \/ \E outcome \in Outcomes3 : YelpReply(outcome)
    \/ YelpContinue3
    \/ \E outcome \in Outcomes3 : EventbriteReply(outcome)
    \/ EventbriteContinue
    \/ Respond3
    \/ Catch3

SpecThree == InitThree /\ [][NextThree]_vars

(***************************************************************************)
(* SpecGeo: the item mappings of the two adapters as pure functions of the *)
(* geolocation an upstream item carries.  A JSON value that can be missing *)
(* or null is written <<value>>, or Absent; the Yelp mapping copies it as  *)
(* it is.                                                                  *)
(***************************************************************************)
\* latitudes and longitudes an upstream item can carry
GeoLatitudes == {340430, 340509, 340522, 341122, 339000}
GeoLongitudes == {-1182673, -1182489, -1182437, -1183391, -1185000}

Optional(S) == {Absent} \cup {<<v>> : v \in S}

\* events of a Ticketmaster response whose venue has a location with or
\* without latitude and longitude
GeoTicketmasterItems ==
    {[TicketmasterItem("a") EXCEPT !.location = [latitude |-> la, longitude |-> lo]] :
        la \in Optional(GeoLatitudes), lo \in Optional(GeoLongitudes)}

\* businesses of a Yelp response whose coordinates hold numbers or null
GeoYelpBusinesses ==
    {[YelpBusiness("a") EXCEPT !.coordinates = [latitude |-> la, longitude |-> lo]] :
        la \in Optional(GeoLatitudes), lo \in Optional(GeoLongitudes)}

InitGeo ==
    /\ \/ mapperInput \in [mapper : {"fetchTicketmasterEvents"}, item : GeoTicketmasterItems]
       \/ mapperInput \in [mapper : {"fetchYelpEvents"}, item : GeoYelpBusinesses,
                           search : {1, 2}]
    /\ mapperOutput = NotCalled
    /\ transitAt = <<>>
    /\ transitOut = NotCalled
    /\ lastPost = NotCalled
    /\ postCount = 0
    /\ eb = AdapterIdle
    /\ fav = FavoritesUnmounted
    /\ env = [ticketmaster |-> TRUE, yelp |-> TRUE]
    /\ InitRouteIdle
    /\ InitDedupIdle

\* the callback of data._embedded.events.map on one item
MapTicketmasterItem ==
    /\ mapperOutput = NotCalled
    /\ mapperInput.mapper = "fetchTicketmasterEvents"
    /\ mapperOutput' = <<TicketmasterEvent(mapperInput.item)>>
    /\ UNCHANGED <<mapperInput, transitAt, transitOut, lastPost, postCount, eb, routeVars, dedupVars, fav>>

\* the callback of data.businesses.map on one business
MapYelpBusiness ==
    /\ mapperOutput = NotCalled
    /\ mapperInput.mapper = "fetchYelpEvents"
    /\ mapperOutput' = <<YelpEvent(mapperInput.item, YelpSearches[mapperInput.search])>>
    /\ UNCHANGED <<mapperInput, transitAt, transitOut, lastPost, postCount, eb, routeVars, dedupVars, fav>>

NextGeo ==
    \/ MapTicketmasterItem
    \/ MapYelpBusiness

SpecGeo == InitGeo /\ [][NextGeo]_vars

(***************************************************************************)
(* SpecFavorites: the FavoritesProvider of the client                      *)
(* (src/unnamed/part_007): the initial load from AsyncStorage, the toggles *)
(* of the user, the renders that apply the queued state updates and run    *)
(* the save effect.  State updates made after an await are batched and     *)
(* applied by the next render; until then the callbacks of the last render *)
(* see the state of that render.                                           *)
(***************************************************************************)
\* toggleFavorite calls of a behaviour
MaxToggles == 3

\* the event ids the user toggles
FavoriteIds == {"a", "b"}

\* the lists AsyncStorage can hold under FAVORITES_KEY, written by an earlier
\* run of the provider
StoredLists == {<<>>, <<"a">>, <<"b">>, <<"a", "b">>, <<"b", "a">>}

Range(list) == {list[i] : i \in 1..Len(list)}

\* mergedFavorites.splice(index, 1) with index = mergedFavorites.indexOf(id)
SpliceFirst(list, id) ==
    LET index == CHOOSE i \in 1..Len(list) :
                     list[i] = id /\ \A j \in 1..(i - 1) : list[j] # id
    IN  SubSeq(list, 1, index - 1) \o SubSeq(list, index + 1, Len(list))

\* one iteration of the loop over pendingIds in loadFavorites
MergeOne(merged, id) ==
    IF id \notin Range(merged) THEN Append(merged, id) ELSE SpliceFirst(merged, id)

\* mergedFavorites after the loop has run over the first n pending ids
MergePending[n \in Nat] ==
    [loaded \in StoredLists, pendingIds \in SeqsUpTo(FavoriteIds, MaxToggles) |->
        IF n = 0 THEN loaded
        ELSE MergeOne(MergePending[n - 1][loaded, pendingIds], pendingIds[n])]

\* the updater toggleFavorite hands to setFavorites
ToggleUpdater(current, eventId) ==
    IF eventId \in Range(current)
    THEN SelectSeq(current, LAMBDA id : id # eventId)
    ELSE Append(current, eventId)

\* a queued state update applied to the state of the provider
ApplyUpdate(state, update) ==
    CASE update.kind = "setFavorites" -> [state EXCEPT !.favorites = update.value]
      [] update.kind = "toggle" ->
            [state EXCEPT !.favorites = ToggleUpdater(@, update.value)]
      [] update.kind = "setIsLoading" -> [state EXCEPT !.isLoading = FALSE]

RECURSIVE ApplyUpdates(_, _)
ApplyUpdates(state, queue) ==
    IF queue = <<>> THEN state
    ELSE ApplyUpdates(ApplyUpdate(state, Head(queue)), Tail(queue))

\* the provider after its first render: favorites [], isLoading true, the
\* load effect has called AsyncStorage.getItem and awaits it
FavoritesMounted(stored) ==
    [load |-> "reading",
     storage |-> stored,
     favorites |-> <<>>,
     isLoading |-> TRUE,
     queue |-> <<>>,
     pending |-> <<>>,
     toggles |-> 0,
     written |-> NotCalled,
     loaded |-> <<>>,
     pendingAtLoad |-> <<>>,
     later |-> 0]

\* toggleFavorite(eventId), the callback of the last render
ToggleFavorite(eventId) ==
    /\ fav.load # "unmounted"
    /\ fav.toggles < MaxToggles
    /\ fav' = [IF fav.isLoading
               THEN [fav EXCEPT !.pending = Append(@, eventId)]
               ELSE [fav EXCEPT !.queue = Append(@, [kind |-> "toggle", value |-> eventId])]
               EXCEPT !.toggles = @ + 1,
                      !.later = IF fav.load = "done" THEN @ + 1 ELSE @]
    /\ UNCHANGED <<routeVars, dedupVars, mapperInput, mapperOutput, transitAt, transitOut,
                   lastPost, postCount, eb>>

\* loadFavorites resumes after `await AsyncStorage.getItem`: the read gave the
\* stored item (or null), or it was rejected and the catch block runs; the
\* finally block runs either way
LoadFavoritesContinue(readOk) ==
    /\ fav.load = "reading"
    /\ LET loadedFavorites == IF fav.storage = Absent THEN <<>> ELSE fav.storage[1]
           mergedFavorites == MergePending[Len(fav.pending)][loadedFavorites, fav.pending]
       IN  fav' = IF readOk
                  THEN [fav EXCEPT !.load = "done",
                                   !.loaded = loadedFavorites,
                                   !.pendingAtLoad = fav.pending,
                                   !.pending = <<>>,
                                   !.queue = @ \o << [kind |-> "setFavorites",
                                                      value |-> mergedFavorites],
                                                     [kind |-> "setIsLoading",
                                                      value |-> <<>>] >>]
                  ELSE [fav EXCEPT !.load = "done",
                                   !.pendingAtLoad = fav.pending,
                                   !.queue = Append(@, [kind |-> "setIsLoading",
                                                        value |-> <<>>])]
    /\ UNCHANGED <<routeVars, dedupVars, mapperInput, mapperOutput, transitAt, transitOut,
                   lastPost, postCount, eb>>

\* a render applies the queued updates; the save effect runs after it when
\* favorites or isLoading changed and isLoading is false
Render ==
    /\ fav.load # "unmounted"
    /\ fav.queue # <<>>
    /\ LET state == ApplyUpdates(fav, fav.queue)
       IN  fav' = IF ~state.isLoading
                  THEN [state EXCEPT !.queue = <<>>,
                                     !.written = <<state.favorites>>,
                                     !.storage = <<state.favorites>>]
                  ELSE [state EXCEPT !.queue = <<>>]
    /\ UNCHANGED <<routeVars, dedupVars, mapperInput, mapperOutput, transitAt, transitOut,
                   lastPost, postCount, eb>>

InitFavorites ==
    /\ fav \in {FavoritesMounted(stored) : stored \in Optional(StoredLists)}
    /\ mapperInput = <<>>
    /\ mapperOutput = NotCalled
    /\ transitAt = <<>>
    /\ transitOut = NotCalled
    /\ lastPost = NotCalled
    /\ postCount = 0
    /\ eb = AdapterIdle
    /\ env = [ticketmaster |-> FALSE, yelp |-> FALSE]
    /\ InitRouteIdle
    /\ InitDedupIdle

NextFavorites ==
    \/ \E eventId \in FavoriteIds : ToggleFavorite(eventId)
    \/ \E readOk \in BOOLEAN : LoadFavoritesContinue(readOk)
    \/ Render

SpecFavorites == InitFavorites /\ [][NextFavorites]_vars

(***************************************************************************)
(* SpecSingle: one GET /api/events request of the single-provider handler  *)
(* (src/server/routes.ts, lines 323-531): the Ticketmaster adapter falls   *)
(* back to the mock events on its own, the handler labels the response.    *)
(* The adapter catches every error and its promise never rejects, so the   *)
(* catch block of the handler is not reached and has no action.            *)
(***************************************************************************)
\* longest list of events in a Ticketmaster response of SpecSingle
MaxSingleItems == 4

\* MOCK_EVENTS of the single-provider handler
MOCK_EVENTS_SINGLE == <<
    [id |-> "1", title |-> "Hollywood Bowl Concert",
     category |-> "entertainment", latitude |-> 341122, longitude |-> -1183391],
    [id |-> "2", title |-> "Grand Central Market Food Tour",
     category |-> "food", latitude |-> 340509, longitude |-> -1182489],
    [id |-> "3", title |-> "Lakers vs Celtics",
     category |-> "sports", latitude |-> 340430, longitude |-> -1182673],
    [id |-> "4", title |-> "LACMA Art Exhibition",
     category |-> "arts", latitude |-> 340639, longitude |-> -1183592],
    [id |-> "5", title |-> "Santa Monica Pier Festival",
     category |-> "entertainment", latitude |-> 340097, longitude |-> -1184977],
    [id |-> "6", title |-> "Koreatown Food Crawl",
     category |-> "food", latitude |-> 340615, longitude |-> -1183095],
    [id |-> "7", title |-> "Dodgers Spring Training",
     category |-> "sports", latitude |-> 340739, longitude |-> -1182400],
    [id |-> "8", title |-> "Getty Center Gardens Tour",
     category |-> "arts", latitude |-> 340781, longitude |-> -1184741] >>

\* mapTicketmasterCategory of the single-provider handler
MapTicketmasterCategorySingle(classifications) ==
    IF classifications = Absent \/ Len(classifications[1]) = 0 THEN "entertainment"
    ELSE LET segment == LowerOrEmpty(classifications[1][1].segment)
             genre == LowerOrEmpty(classifications[1][1].genre)
         IN  IF segment = "sports" \/ Includes(genre, "sport") THEN "sports"
             ELSE IF \/ segment = "arts & theatre"
                     \/ Includes(genre, "art")
                     \/ Includes(genre, "theatre") THEN "arts"
             ELSE IF Includes(genre, "food") \/ Includes(genre, "culinary") THEN "food"
             ELSE "entertainment"

\* the callback of data._embedded.events.map: the id is the native id
TicketmasterEventSingle(item) ==
    [id |-> item.id,
     title |-> item.name,
     category |-> MapTicketmasterCategorySingle(item.classifications),
     latitude |-> IF item.location.latitude # Absent
                  THEN item.location.latitude[1] ELSE CityCenterLat,
     longitude |-> IF item.location.longitude # Absent
                   THEN item.location.longitude[1] ELSE CityCenterLng]

\* what the Ticketmaster call of SpecSingle can come back with
OutcomesSingle ==
    {[kind |-> k, items |-> <<>>] : k \in FailureKinds}
    \cup {[kind |-> "ok", items |-> l] : l \in SeqsUpTo(NativeIds, MaxSingleItems)}

\* return events.length > 0 ? events : MOCK_EVENTS
EventsOrMock(events) == IF Len(events) > 0 THEN events ELSE MOCK_EVENTS_SINGLE

\* what fetchTicketmasterEvents returns after its await
TicketmasterSingleResult(reply) ==
    IF reply.kind \in ThrowingKinds THEN MOCK_EVENTS_SINGLE
    ELSE IF reply.kind = "non2xx" THEN MOCK_EVENTS_SINGLE
    ELSE IF reply.kind = "noList" THEN MOCK_EVENTS_SINGLE
    ELSE EventsOrMock([i \in 1..Len(reply.items) |->
                          TicketmasterEventSingle(TicketmasterItem(reply.items[i]))])

\* process.env.TICKETMASTER_API_KEY ? "ticketmaster" : "mock"
SourceLabel(e, events) == IF TicketmasterKeySet(e) THEN "ticketmaster" ELSE "mock"

\* app.get("/api/events", ...) up to `await fetchTicketmasterEvents()`: without
\* the key the adapter returns MOCK_EVENTS at once
RequestSingle ==
    /\ pc = "idle"
    /\ pc' = "awaitAdapter"
    /\ tm' = IF ~TicketmasterKeySet(env)
             THEN [AdapterIdle EXCEPT !.status = "resolved", !.last = "noKey",
                                      !.result = MOCK_EVENTS_SINGLE]
             ELSE [AdapterIdle EXCEPT !.status = "pending", !.call = "inFlight"]
    /\ httpCalls' = IF TicketmasterKeySet(env) THEN {TicketmasterUrl} ELSE {}
    /\ UNCHANGED <<env, yelp, promiseAll, eventStats, responses, settleOrder,
                   dedupVars, auxVars>>

\* fetchTicketmasterEvents resumes after its await and runs to its return
TicketmasterContinueSingle ==
    /\ tm.call = "arrived"
    /\ tm' = [tm EXCEPT !.call = "none", !.reply = NoReply,
                        !.last = tm.reply.kind,
                        !.replies = RecordReply(@, 1, tm.reply),
                        !.status = "resolved",
                        !.result = TicketmasterSingleResult(tm.reply)]
    /\ UNCHANGED <<env, pc, yelp, promiseAll, eventStats, responses, httpCalls,
                   settleOrder, dedupVars, auxVars>>

\* the handler resumes after its await and sends the response
RespondSingle ==
    /\ pc = "awaitAdapter"
    /\ tm.status = "resolved"
    /\ pc' = "done"
    /\ responses' = Append(responses,
          Json([events |-> tm.result, source |-> SourceLabel(env, tm.result)]))
    /\ UNCHANGED <<env, tm, yelp, promiseAll, eventStats, httpCalls, settleOrder,
                   dedupVars, auxVars>>

InitSingle ==
    /\ env \in [ticketmaster : BOOLEAN, yelp : {FALSE}]
    /\ InitRouteIdle
    /\ InitDedupIdle
    /\ InitAuxIdle

NextSingle ==
    \/ RequestSingle
    \/ \E outcome \in OutcomesSingle : TicketmasterReply(outcome)
    \/ TicketmasterContinueSingle
    \/ RespondSingle

SpecSingle == InitSingle /\ [][NextSingle]_vars

(***************************************************************************)
(* Properties                                                              *)
(***************************************************************************)
\* the positions of a list that hold the first occurrence of their id
FirstIndices(list) ==
    {i \in 1..Len(list) : \A j \in 1..(i - 1) : list[j].id # list[i].id}

\* the k-th smallest element of a set of numbers
KthOf(S, k) == CHOOSE i \in S : Cardinality({j \in S : j < i}) = k - 1

\* a list with every non-first occurrence of an id removed
FirstOccurrences(list) ==
    [k \in 1..Cardinality(FirstIndices(list)) |-> list[KthOf(FirstIndices(list), k)]]

DistinctIds(list) ==
    \A i, j \in 1..Len(list) : i # j => list[i].id # list[j].id

\* the fields an adapter sets
BaseFields == {"id", "title", "category", "latitude", "longitude"}
Base(event) == [f \in BaseFields |-> event[f]]
BaseOf(events) == [i \in 1..Len(events) |-> Base(events[i])]

Answered == pc = "done"
TheResponse == responses[1]
TheEvents == responses[1].body.events

\* C1: deduplicateEvents returns its input with every non-first occurrence of
\* an id removed: no id twice, each kept event the earliest of its id, the
\* kept events in input order; the input list is left as it was.
DedupFirstWins ==
    /\ [](dedupOutput # NotCalled =>
            LET out == dedupOutput[1]
            IN  /\ out = FirstOccurrences(dedupInput)
                /\ DistinctIds(out)
                /\ \A k \in 1..Len(out) :
                     \E i \in 1..Len(dedupInput) :
                        /\ dedupInput[i] = out[k]
                        /\ \A j \in 1..(i - 1) : dedupInput[j].id # out[k].id
                /\ IdsOf(out) = IdsOf(dedupInput))
    /\ [][dedupInput' = dedupInput]_vars

\* C1 witness: a later event with the id of the first one, another title and
\* another event in between, has been removed
DedupFirstWinsWitness ==
    /\ dedupOutput # NotCalled
    /\ Len(dedupInput) = 3
    /\ dedupInput[1].id = dedupInput[3].id
    /\ dedupInput[1].title # dedupInput[3].title
    /\ dedupInput[2].id # dedupInput[1].id
    /\ dedupOutput[1] = <<dedupInput[1], dedupInput[2]>>

\* C2: deduplicateEvents on its own output returns that output, and on a list
\* of pairwise distinct ids it returns the list.
DedupIdempotent ==
    /\ dedupAgain # NotCalled => dedupAgain[1] = dedupOutput[1]
    /\ (dedupOutput # NotCalled /\ DistinctIds(dedupInput)) =>
            dedupOutput[1] = dedupInput

\* C2 witness: the second call ran on an output of two events that the first
\* call had shortened
DedupIdempotentWitness ==
    /\ dedupAgain # NotCalled
    /\ Len(dedupOutput[1]) = 2
    /\ Len(dedupInput) = 3
    /\ dedupAgain[1] = dedupOutput[1]


\* the request was answered from the try block
AnsweredLive == Answered /\ "total" \in DOMAIN TheResponse.body.sources
\* the request was answered from the catch block
AnsweredByCatch == Answered /\ "mock" \in DOMAIN TheResponse.body.sources

BothReturned == tm.status = "resolved" /\ yelp.status = "resolved"

\* C3: when every adapter returned the empty list, the events of the response
\* are the mock events, enriched with parking, transit and trending, in the
\* order of the mock dataset, and there is at least one.
FallbackGuarantee ==
    (Answered /\ BothReturned /\ tm.result = <<>> /\ yelp.result = <<>>) =>
        /\ Len(TheEvents) > 0
        /\ BaseOf(TheEvents) = MOCK_EVENTS
        /\ TheEvents = MarkTrendingEvents(EnhanceEvents(MOCK_EVENTS), eventStats)
        /\ \A i \in 1..Len(TheEvents) :
             /\ TheEvents[i].parkingInfo = GetParkingInfo(MOCK_EVENTS[i].category)
             /\ Len(TheEvents[i].nearbyTransit) <= MaxTransit
             /\ TheEvents[i].viewCount = eventStats[MOCK_EVENTS[i].id].views
             /\ TheEvents[i].favoriteCount = eventStats[MOCK_EVENTS[i].id].favorites

\* C3 witness: no key is configured, the try block answered, and one of the
\* mock events is trending
FallbackGuaranteeWitness ==
    /\ ~env.ticketmaster /\ ~env.yelp
    /\ AnsweredLive
    /\ httpCalls = {}
    /\ TheEvents[1].id = "mock-1"
    /\ \E i \in 1..Len(TheEvents) : TheEvents[i].isTrending

\* C4: whatever the adapters' calls come back with and whether or not the try
\* block throws, the handler sends one response, never more; it has status 200
\* and a body of events and sources with at least one event.
OneOkResponse ==
    /\ Len(responses) <= 1
    /\ Answered <=> Len(responses) = 1
    /\ \A i \in 1..Len(responses) :
         /\ responses[i].status = 200
         /\ DOMAIN responses[i].body = {"events", "sources"}
         /\ Len(responses[i].body.events) > 0

\* C4 witness: both adapters failed on their first call and the try block
\* threw; the catch block answered
OneOkResponseWitness ==
    /\ AnsweredByCatch
    /\ tm.last = "networkError"
    /\ yelp.last = "badJson"
    /\ Len(responses) = 1

\* C5: every response carries sources.total, equal to the number of events in
\* that response.
SourcesTotalIsLength ==
    \A i \in 1..Len(responses) :
        /\ "total" \in DOMAIN responses[i].body.sources
        /\ responses[i].body.sources.total = Len(responses[i].body.events)

\* C6: once the handler is past the call of the adapters both are started, and
\* a response is sent only when no adapter is still pending.
JoinAll ==
    /\ pc # "idle" => (tm.status # "idle" /\ yelp.status # "idle")
    /\ (Answered \/ responses # <<>>) =>
            /\ tm.status \in {"resolved", "rejected"}
            /\ yelp.status \in {"resolved", "rejected"}
            /\ tm.call = "none" /\ yelp.call = "none"

\* C6 witness: a request answered after both adapters made their calls, Yelp's
\* two searches finishing before Ticketmaster's call
JoinAllWitness ==
    /\ Answered
    /\ settleOrder = <<"yelp", "ticketmaster">>
    /\ httpCalls = {TicketmasterUrl, YelpUrl(1), YelpUrl(2)}
    /\ tm.last = "non2xx"

\* C7: the events of a live response are the Ticketmaster adapter's events
\* followed by the Yelp adapter's, each in the adapter's order, without the
\* later occurrences of an id, in whatever order the adapters settled.
OrderIsAdapterOrder ==
    (AnsweredLive /\ tm.result \o yelp.result # <<>>) =>
        BaseOf(TheEvents) = FirstOccurrences(tm.result \o yelp.result)

\* C7 witness: Yelp settled first with events of both searches, Ticketmaster
\* after it with an event, and the response starts with the Ticketmaster event
OrderIsAdapterOrderWitness ==
    /\ AnsweredLive
    /\ settleOrder = <<"yelp", "ticketmaster">>
    /\ Len(tm.result) > 0
    /\ Len(yelp.result) = 2
    /\ TheEvents[1].id = tm.result[1].id
    /\ TheEvents[Len(TheEvents)].category = "bars"

\* C8: a request that has started its fan-out is eventually answered.
EventuallyAnswered == (pc = "awaitAll") ~> (Answered /\ Len(responses) = 1)

\* C8 witness: a request answered after every call the adapters can make
EventuallyAnsweredWitness ==
    /\ Answered
    /\ httpCalls = {TicketmasterUrl, YelpUrl(1), YelpUrl(2)}
    /\ tm.last = "ok" /\ yelp.last = "ok"

YelpUrls == {YelpUrl(i) : i \in 1..Len(YelpSearches)}

\* C9: an adapter whose key is not set has returned the empty list by the time
\* the handler awaits, and issues no call; an adapter whose key is set issues
\* its call whether or not the other adapter's key is set.
NoKeyNoCall ==
    /\ ~env.ticketmaster =>
          /\ TicketmasterUrl \notin httpCalls
          /\ pc # "idle" => (tm.status = "resolved" /\ tm.result = <<>>
                             /\ AdapterIndex("ticketmaster") \in promiseAll.settled)
    /\ ~env.yelp =>
          /\ httpCalls \cap YelpUrls = {}
          /\ pc # "idle" => (yelp.status = "resolved" /\ yelp.result = <<>>
                             /\ AdapterIndex("yelp") \in promiseAll.settled)
    /\ (env.ticketmaster /\ pc # "idle") => TicketmasterUrl \in httpCalls
    /\ (env.yelp /\ pc # "idle") => YelpUrl(1) \in httpCalls

\* C9 witness: without a Ticketmaster key the Yelp adapter has fetched and
\* returned events, and they were served
NoKeyNoCallWitness ==
    /\ ~env.ticketmaster /\ env.yelp
    /\ AnsweredLive
    /\ httpCalls = YelpUrls
    /\ tm.last = "noKey"
    /\ Len(yelp.result) > 0
    /\ BaseOf(TheEvents) = FirstOccurrences(yelp.result)

TicketmasterIds == {"tm-" \o n : n \in NativeIds}
YelpIds == {"yelp-" \o n : n \in NativeIds}

\* C10: no adapter's promise is ever rejected, so the awaited Promise.all is
\* never rejected; an adapter resolves with a list of its events, the empty
\* list when its call or the mapping of the reply failed.
AdaptersNeverReject ==
    /\ tm.status # "rejected" /\ yelp.status # "rejected"
    /\ promiseAll.state # "rejected"
    /\ tm.status = "resolved" =>
          /\ IdsOf(tm.result) \subseteq TicketmasterIds
          /\ tm.last \in FailureKinds => tm.result = <<>>
    /\ yelp.status = "resolved" =>
          /\ IdsOf(yelp.result) \subseteq YelpIds
          /\ yelp.last \in ThrowingKinds => yelp.result = <<>>
          /\ yelp.last \notin ThrowingKinds => yelp.result = yelp.allEvents
    /\ (tm.call = "none" /\ tm.status # "idle") => tm.status = "resolved"
    /\ (yelp.call = "none" /\ yelp.status # "idle") => yelp.status = "resolved"

\* C10 witness: Ticketmaster's call failed on the network and a business of
\* Yelp's second reply lacked a field; both adapters resolved with the empty
\* list
AdaptersNeverRejectWitness ==
    /\ BothReturned
    /\ tm.last = "networkError"
    /\ yelp.last = "badItem"
    /\ yelp.search = 2
    /\ yelp.allEvents # <<>>
    /\ yelp.result = <<>>

RECURSIVE ConcatOk(_, _)
\* the events of the first n replies that carried a list, search by search
ConcatOk(replies, n) ==
    IF n = 0 THEN <<>>
    ELSE ConcatOk(replies, n - 1)
         \o (IF replies[n].kind = "ok"
             THEN YelpEventsOf(replies[n].items, YelpSearches[n]) ELSE <<>>)

\* C11: the Yelp adapter issues its searches in the declared order; a search
\* answered with a non-2xx status adds no event and the next search is issued
\* all the same; an adapter one of whose searches was answered non-2xx returns
\* the events of the searches that were answered with a list, in search order.
Non2xxSkipsOneSearch ==
    /\ httpCalls \cap YelpUrls = {YelpUrl(i) : i \in 1..yelp.search}
    /\ \A i \in 1..Len(yelp.replies) :
          (yelp.replies[i].kind = "non2xx" /\ i < Len(YelpSearches)) =>
              /\ yelp.search > i
              /\ YelpUrl(i + 1) \in httpCalls
    /\ (yelp.status = "resolved"
          /\ \E i \in 1..Len(yelp.replies) : yelp.replies[i].kind = "non2xx") =>
              yelp.result = ConcatOk(yelp.replies, Len(yelp.replies))

\* C11 witness: the first search was answered non-2xx, the second with a
\* business, and the adapter returned that business as a bars event
Non2xxSkipsOneSearchWitness ==
    /\ yelp.status = "resolved"
    /\ Len(yelp.replies) = 2
    /\ yelp.replies[1].kind = "non2xx"
    /\ yelp.replies[2].kind = "ok"
    /\ Len(yelp.result) = 1
    /\ yelp.result[1].category = "bars"

AllResponseEvents ==
    UNION {{responses[i].body.events[k] : k \in 1..Len(responses[i].body.events)} :
              i \in 1..Len(responses)}

\* C16: every event of every response has a parkingInfo with available =
\* true; events of the same category have the same parkingInfo, and so do a
\* food and a bars event.
ParkingByCategory ==
    /\ \A i \in 1..Len(responses) :
         \A k \in 1..Len(responses[i].body.events) :
            LET e == responses[i].body.events[k]
            IN  /\ "parkingInfo" \in DOMAIN e
                /\ e.parkingInfo.available = TRUE
    /\ \A e1, e2 \in AllResponseEvents :
          (\/ e1.category = e2.category
           \/ {e1.category, e2.category} = {"food", "bars"})
          => e1.parkingInfo = e2.parkingInfo

\* C16 witness: a live response with a food and a bars event of Yelp
ParkingByCategoryWitness ==
    /\ AnsweredLive
    /\ Len(TheEvents) = 2
    /\ TheEvents[1].category = "food"
    /\ TheEvents[2].category = "bars"

MockIds == IdsOf(MOCK_EVENTS)

\* C17: the ids the Ticketmaster adapter builds, the ids the Yelp adapter
\* builds and the mock ids are pairwise disjoint for every pair of native
\* ids, so the deduplicator removes an event only because of an earlier event
\* of the same adapter: the live events are the first occurrences of the
\* Ticketmaster list followed by the first occurrences of the Yelp list.
IdsNamespaced ==
    /\ TicketmasterIds \cap YelpIds = {}
    /\ TicketmasterIds \cap MockIds = {}
    /\ YelpIds \cap MockIds = {}
    /\ IdsOf(tm.result) \subseteq TicketmasterIds
    /\ IdsOf(yelp.allEvents) \subseteq YelpIds
    /\ IdsOf(tm.result) \cap IdsOf(yelp.allEvents) = {}
    /\ (AnsweredLive /\ tm.result \o yelp.result # <<>>) =>
          BaseOf(TheEvents) = FirstOccurrences(tm.result) \o FirstOccurrences(yelp.result)

\* C17 witness: both providers use the native id a, Yelp in both searches;
\* the response has the Ticketmaster event and one Yelp event
IdsNamespacedWitness ==
    /\ AnsweredLive
    /\ IdsOf(tm.result) = {"tm-a"}
    /\ Len(yelp.result) = 2
    /\ IdsOf(yelp.result) = {"yelp-a"}
    /\ Len(TheEvents) = 2

DerivedFields ==
    {"viewCount", "favoriteCount", "isTrending", "parkingInfo", "nearbyTransit"}

\* what the handler hands to the enrichment steps
EnrichmentInput ==
    IF AnsweredLive /\ tm.result \o yelp.result # <<>>
    THEN DeduplicateEvents(tm.result \o yelp.result)
    ELSE MOCK_EVENTS

\* C19: no event an adapter returns and no stored mock event has a derived
\* field; every event of a response has all five, and apart from them the
\* events of the response are the events handed to the enrichment steps, as
\* many and in the same order.
EnrichmentFrame ==
    /\ \A i \in 1..Len(tm.result) : DOMAIN tm.result[i] \cap DerivedFields = {}
    /\ \A i \in 1..Len(yelp.allEvents) : DOMAIN yelp.allEvents[i] \cap DerivedFields = {}
    /\ \A i \in 1..Len(MOCK_EVENTS) : DOMAIN MOCK_EVENTS[i] \cap DerivedFields = {}
    /\ Answered =>
          /\ \A k \in 1..Len(TheEvents) :
                DOMAIN TheEvents[k] = BaseFields \cup DerivedFields
          /\ Len(TheEvents) = Len(EnrichmentInput)
          /\ \A k \in 1..Len(TheEvents) :
                \A f \in DOMAIN EnrichmentInput[k] :
                    TheEvents[k][f] = EnrichmentInput[k][f]

\* C19 witness: a live response of a Ticketmaster and a Yelp event
EnrichmentFrameWitness ==
    /\ AnsweredLive
    /\ Len(tm.result) = 1
    /\ Len(yelp.result) = 1
    /\ Len(TheEvents) = 2
    /\ TheEvents[1].id = "tm-b"
    /\ TheEvents[2].id = "yelp-a"

\* names in which no mapper finds a keyword
PlainNames == {"", "Basketball", "Comedy"}
IsPlain(name) == name = Absent \/ name[1] \in PlainNames

\* the names a mapper call looks at: those of the first entry
NamesLookedAt ==
    IF mapperInput.mapper = "categorizeEventbriteEvent"
    THEN {mapperInput.event.category, mapperInput.event.subcategory}
    ELSE IF mapperInput.classifications = Absent
            \/ Len(mapperInput.classifications[1]) = 0 THEN {}
    ELSE LET first == mapperInput.classifications[1][1]
         IN  {first.segment, first.genre, first.subGenre}

\* C12: each category mapper returns one of the five categories for every
\* classification: null, the empty list, an entry with names missing or
\* unknown; it returns entertainment when no name has a keyword.  The
\* categories the Yelp adapter assigns and those of the mock events are
\* among the five as well.
CategoryTotal ==
    /\ mapperOutput # NotCalled =>
          /\ mapperOutput[1] \in Categories
          /\ (\A name \in NamesLookedAt : IsPlain(name)) =>
                mapperOutput[1] = "entertainment"
    /\ \A i \in 1..Len(YelpSearches) : YelpSearches[i].eventCategory \in Categories
    /\ \A i \in 1..Len(MOCK_EVENTS) : MOCK_EVENTS[i].category \in Categories

\* C12 witness: mapTicketmasterCategory was called on an entry without a
\* segment and with an unknown genre
CategoryTotalWitness ==
    /\ mapperOutput = <<"entertainment">>
    /\ mapperInput.mapper = "mapTicketmasterCategory"
    /\ mapperInput.classifications # Absent
    /\ Len(mapperInput.classifications[1]) = 1
    /\ mapperInput.classifications[1][1].segment = Absent
    /\ mapperInput.classifications[1][1].genre = <<"Comedy">>

NoSignal == "none"

\* the category a Ticketmaster segment stands for
SegmentSignal(segment) ==
    CASE LowerOrEmpty(segment) = "sports" -> "sports"
      [] LowerOrEmpty(segment) = "arts & theatre" -> "arts"
      [] OTHER -> NoSignal

\* the category the keywords of a Ticketmaster genre stand for
GenreSignal(genre) ==
    CASE Includes(LowerOrEmpty(genre), "sport") -> "sports"
      [] Includes(LowerOrEmpty(genre), "art") -> "arts"
      [] Includes(LowerOrEmpty(genre), "theatre") -> "arts"
      [] OTHER -> NoSignal

\* the category an Eventbrite category stands for
EventbriteCategorySignal(category) ==
    CASE Includes(LowerOrEmpty(category), "music") -> "entertainment"
      [] Includes(LowerOrEmpty(category), "entertainment") -> "entertainment"
      [] Includes(LowerOrEmpty(category), "food") -> "food"
      [] Includes(LowerOrEmpty(category), "drink") -> "food"
      [] Includes(LowerOrEmpty(category), "sports") -> "sports"
      [] Includes(LowerOrEmpty(category), "fitness") -> "sports"
      [] Includes(LowerOrEmpty(category), "arts") -> "arts"
      [] Includes(LowerOrEmpty(category), "culture") -> "arts"
      [] OTHER -> NoSignal

\* the category an Eventbrite subcategory stands for
SubcategorySignal(subcategory) ==
    CASE Includes(LowerOrEmpty(subcategory), "nightlife") -> "bars"
      [] Includes(LowerOrEmpty(subcategory), "bar") -> "bars"
      [] OTHER -> NoSignal

\* the signals of the call: specific (genre, subcategory) and broad (segment,
\* category)
SpecificSignal ==
    IF mapperInput.mapper = "categorizeEventbriteEvent"
    THEN SubcategorySignal(mapperInput.event.subcategory)
    ELSE IF mapperInput.classifications = Absent
            \/ Len(mapperInput.classifications[1]) = 0 THEN NoSignal
    ELSE GenreSignal(mapperInput.classifications[1][1].genre)

BroadSignal ==
    IF mapperInput.mapper = "categorizeEventbriteEvent"
    THEN EventbriteCategorySignal(mapperInput.event.category)
    ELSE IF mapperInput.classifications = Absent
            \/ Len(mapperInput.classifications[1]) = 0 THEN NoSignal
    ELSE SegmentSignal(mapperInput.classifications[1][1].segment)

\* C13: when the specific signal (Ticketmaster genre, Eventbrite subcategory)
\* and the broad signal (Ticketmaster segment, Eventbrite category) stand for
\* different categories, the mapper returns the category of the specific one.
SpecificSignalWins ==
    (/\ mapperOutput # NotCalled
     /\ SpecificSignal # NoSignal
     /\ BroadSignal # NoSignal
     /\ SpecificSignal # BroadSignal) => mapperOutput[1] = SpecificSignal

\* the distance in feet of station number i from the coordinate of the call
StationDistance(i) ==
    GetDistanceInFeet(transitAt[1], transitAt[2], MetroStations[i].lat, MetroStations[i].lng)

\* the number of the station an entry of the result names
StationOf(entry) == CHOOSE i \in 1..Len(MetroStations) : MetroStations[i].name = entry.station

\* C15: getNearestTransit returns at most two entries, each a station less
\* than two miles away, nearest first; no station left out is nearer than a
\* returned one; at the location of a station that station comes first; two
\* miles or more from every station the result is empty.
NearestTransitCorrect ==
    transitOut # NotCalled =>
        LET out == transitOut[1]
            returned == {StationOf(out[k]) : k \in 1..Len(out)}
        IN  /\ Len(out) <= 2
            /\ Cardinality(returned) = Len(out)
            /\ \A k \in 1..Len(out) :
                  /\ out[k].distanceNum = StationDistance(StationOf(out[k]))
                  /\ out[k].distanceNum < 2 * FeetPerMile
            /\ \A k \in 1..(Len(out) - 1) : out[k].distanceNum <= out[k + 1].distanceNum
            /\ \A i \in (1..Len(MetroStations)) \ returned :
                  \A j \in returned : StationDistance(i) >= StationDistance(j)
            /\ \A i \in 1..Len(MetroStations) :
                  transitAt = <<MetroStations[i].lat, MetroStations[i].lng>> =>
                      /\ Len(out) >= 1
                      /\ out[1].station = MetroStations[i].name
                      /\ out[1].distanceNum = 0
            /\ (\A i \in 1..Len(MetroStations) : StationDistance(i) >= 2 * FeetPerMile)
                  => out = <<>>
            /\ (\E i \in 1..Len(MetroStations) : StationDistance(i) < 2 * FeetPerMile)
                  => out # <<>>

\* C15 witness: at Pershing Square the result is Pershing Square at no
\* distance and after it 7th St/Metro Center, with three more stations in reach
NearestTransitCorrectWitness ==
    /\ transitOut # NotCalled
    /\ transitAt = <<340489, -1182513>>
    /\ Len(transitOut[1]) = 2
    /\ transitOut[1][1].station = "Pershing Square"
    /\ transitOut[1][1].distance = "0 ft"
    /\ transitOut[1][2].station = "7th St/Metro Center"
    /\ Cardinality({i \in 1..Len(MetroStations) : StationDistance(i) < 2 * FeetPerMile}) > 2

\* a far place was asked for and nothing was returned
NearestTransitFarWitness ==
    /\ transitOut = << <<>> >>
    /\ transitAt = <<342000, -1185000>>

RECURSIVE ScoreSum(_, _)
\* favoriteCount * 10 + viewCount, summed over the first n events of a response
ScoreSum(events, n) ==
    IF n = 0 THEN 0
    ELSE ScoreSum(events, n - 1) + events[n].favoriteCount * 10 + events[n].viewCount

\* C14: in every response an event is trending exactly when its
\* favoriteCount * 10 + viewCount is more than 1.5 times the mean of that
\* score over the events of the response (2 * n * score > 3 * sum), whatever
\* POST and GET requests were served before.
TrendingThreshold ==
    \A i \in 1..Len(responses) :
        LET events == responses[i].body.events
            n == Len(events)
            total == ScoreSum(events, n)
        IN  \A k \in 1..n :
                events[k].isTrending
                    <=> 2 * n * (events[k].favoriteCount * 10 + events[k].viewCount)
                            > 3 * total

\* C14 witness: after two POSTs a response of the five mock events in which
\* only mock-1, viewed twice, is trending
TrendingThresholdWitness ==
    /\ postCount = 2
    /\ Answered
    /\ Len(TheEvents) = 5
    /\ TheEvents[1].viewCount = 2
    /\ TheEvents[1].isTrending
    /\ \A k \in 2..5 : ~TheEvents[k].isTrending

\* C20: a POST view adds 1 to the views of its id and a POST favorite adds 1
\* to the favorites of its id when favorited is true and takes 1 away when it
\* is false (from the random start when the id was not in the map); each
\* answers with the new value and leaves the other counter of the id and the
\* counters of every other id as they were.  A GET reports for each event the
\* counters eventStats holds for its id.
PostsCountByOne ==
    /\ [][postCount' = postCount + 1 =>
            LET post == lastPost'[1]
                id == post.id
                before == IF id \in DOMAIN eventStats THEN {eventStats[id]} ELSE SeedStats
            IN  /\ DOMAIN eventStats' = DOMAIN eventStats \cup {id}
                /\ \A other \in DOMAIN eventStats \ {id} :
                      eventStats'[other] = eventStats[other]
                /\ post.route = "view" =>
                      /\ \E b \in before :
                            eventStats'[id] = [views |-> b.views + 1,
                                               favorites |-> b.favorites]
                      /\ post.body = [success |-> TRUE, views |-> eventStats'[id].views]
                /\ post.route = "favorite" =>
                      /\ \E b \in before :
                            eventStats'[id] =
                                [views |-> b.views,
                                 favorites |-> IF post.favorited[1]
                                               THEN b.favorites + 1
                                               ELSE b.favorites - 1]
                      /\ post.body = [success |-> TRUE,
                                      favorites |-> eventStats'[id].favorites]]_vars
    /\ [][Len(responses') = Len(responses) + 1 =>
            LET events == responses'[Len(responses')].body.events
            IN  \A k \in 1..Len(events) :
                    /\ events[k].viewCount = eventStats'[events[k].id].views
                    /\ events[k].favoriteCount = eventStats'[events[k].id].favorites
                    /\ events[k].id \in DOMAIN eventStats =>
                          /\ events[k].viewCount = eventStats[events[k].id].views
                          /\ events[k].favoriteCount = eventStats[events[k].id].favorites]_vars

\* C20 witness: mock-1 was viewed once and un-favorited once, and a GET served
\* after that reports the view and the favorites the POST answered with
PostsCountByOneWitness ==
    /\ postCount = 2
    /\ lastPost # NotCalled
    /\ lastPost[1].route = "favorite"
    /\ lastPost[1].id = "mock-1"
    /\ lastPost[1].favorited = <<FALSE>>
    /\ Answered
    /\ TheEvents[1].id = "mock-1"
    /\ TheEvents[1].favoriteCount = lastPost[1].body.favorites
    /\ TheEvents[1].favoriteCount \in {-1, 5}
    /\ TheEvents[1].viewCount \in {1, 41}

\* C18: no two events of a response of the three-provider handler have the
\* same id.
NoDuplicateIds ==
    \A i \in 1..Len(responses) : DistinctIds(responses[i].body.events)

\* a POST handler runs: the only steps that count a POST
PostStep == postCount' # postCount

\* the GET handler runs its synchronous pass after the join (try block to its
\* end, or the catch block)
EnrichmentStep == pc = "awaitAll" /\ pc' = "done"

\* C21 as stated: eventStats is neither read nor written while a GET
\* /api/events request is in its concurrent fetch phase.
StatsUntouchedInFetchPhase ==
    [][(PostStep \/ EnrichmentStep \/ eventStats' # eventStats) => ~FetchPhase]_vars

\* C21, amended: a GET /api/events request touches eventStats only in its
\* synchronous pass after the join, when no call of an adapter is pending; the
\* steps of its fetch phase leave the map as it is.  The only other steps that
\* touch the map are the POST view and favorite handlers, which run at any
\* moment, the fetch phase of a GET request included.
StatsTouchedAfterJoinOrByPost ==
    /\ [][EnrichmentStep => ~FetchPhase]_vars
    /\ [][eventStats' # eventStats => (PostStep \/ EnrichmentStep)]_vars
    /\ [][(FetchPhase /\ eventStats' # eventStats) => PostStep]_vars

\* C21 witness: a POST was served while the GET request was waiting for
\* Ticketmaster, it changed the map, and the request was answered afterwards
StatsTouchedAfterJoinOrByPostWitness ==
    /\ lastPost # NotCalled
    /\ lastPost[1].fetchPhase
    /\ lastPost[1].id \in DOMAIN eventStats
    /\ Answered
    /\ Len(tm.result) > 0

\* C22: eventStats is append-only and seeded at most once per id.  No step
\* removes an entry; an entry is created by the enrichment of a response that
\* holds its id or by a POST for its id; an entry that exists is changed by no
\* step but a POST for its id; a GET /api/events response reports, for each of
\* its events, the counters of the entry as they are stored.  So two responses
\* with no POST for an id in between report the same viewCount and
\* favoriteCount for that id.
StatsAppendOnly ==
    /\ [][DOMAIN eventStats \subseteq DOMAIN eventStats']_vars
    /\ [][\A id \in DOMAIN eventStats :
             eventStats'[id] # eventStats[id] =>
                PostStep /\ lastPost'[1].id = id]_vars
    /\ [][\A id \in DOMAIN eventStats' \ DOMAIN eventStats :
             \/ /\ PostStep
                /\ lastPost'[1].id = id
                /\ \E seed \in SeedStats :
                      \/ eventStats'[id] = [seed EXCEPT !.views = @ + 1]
                      \/ eventStats'[id] = [seed EXCEPT !.favorites = @ + 1]
                      \/ eventStats'[id] = [seed EXCEPT !.favorites = @ - 1]
             \/ /\ EnrichmentStep
                /\ eventStats'[id] \in SeedStats
                /\ \E k \in 1..Len(responses'[1].body.events) :
                      responses'[1].body.events[k].id = id]_vars
    /\ [][EnrichmentStep =>
             \A k \in 1..Len(responses'[1].body.events) :
                LET e == responses'[1].body.events[k]
                IN  /\ e.id \in DOMAIN eventStats'
                    /\ e.viewCount = eventStats'[e.id].views
                    /\ e.favoriteCount = eventStats'[e.id].favorites
                    /\ e.id \in DOMAIN eventStats =>
                           eventStats'[e.id] = eventStats[e.id]]_vars

\* C22 witness: a GET /api/events request is answered with the mock events and
\* the stored counters of mock-1, while the map also holds the entry that a
\* POST for tm-a created outside the fetch phase; no POST was for mock-1
StatsAppendOnlyWitness ==
    /\ Answered
    /\ postCount = 1
    /\ lastPost[1].id = "tm-a"
    /\ lastPost[1].fetchPhase = FALSE
    /\ TheEvents[1].id = "mock-1"
    /\ "tm-a" \in DOMAIN eventStats
    /\ TheEvents[1].viewCount = eventStats["mock-1"].views

\* C23: every event an adapter makes of an upstream item has a number as
\* latitude and as longitude, and both are the city-center coordinate when the
\* item carries no geolocation.
GeoDefaulted ==
    mapperOutput # NotCalled =>
        LET e == mapperOutput[1]
            geo == IF mapperInput.mapper = "fetchTicketmasterEvents"
                   THEN mapperInput.item.location ELSE mapperInput.item.coordinates
            omitted == geo.latitude = Absent /\ geo.longitude = Absent
        IN  IF mapperInput.mapper = "fetchTicketmasterEvents"
            THEN /\ e.latitude \in Int
                 /\ e.longitude \in Int
                 /\ omitted => (e.latitude = CityCenterLat /\ e.longitude = CityCenterLng)
            ELSE /\ e.latitude # Absent
                 /\ e.longitude # Absent
                 /\ omitted => (e.latitude = <<CityCenterLat>>
                                /\ e.longitude = <<CityCenterLng>>)

\* C24: no response flags every one of its events as trending.
NeverAllTrending ==
    \A i \in 1..Len(responses) :
        \E k \in 1..Len(responses[i].body.events) :
            ~responses[i].body.events[k].isTrending

\* C25: the views and the favorites of every entry of eventStats are not
\* negative.
CountersNonNegative ==
    \A id \in DOMAIN eventStats :
        eventStats[id].views >= 0 /\ eventStats[id].favorites >= 0

\* C26: the Yelp adapter returns the events of the searches that were answered
\* with a list, whatever the other searches came to: a later search that fails
\* with a non-2xx status or with a thrown error takes no earlier event away.
EarlierSearchesKept ==
    yelp.status = "resolved" =>
        yelp.result = ConcatOk(yelp.replies, Len(yelp.replies))

\* the native ids both Yelp searches returned
InBothSearches ==
    IF Len(yelp.replies) = 2 /\ yelp.replies[1].kind = "ok" /\ yelp.replies[2].kind = "ok"
    THEN {yelp.replies[1].items[i] : i \in 1..Len(yelp.replies[1].items)}
         \cap {yelp.replies[2].items[i] : i \in 1..Len(yelp.replies[2].items)}
    ELSE {}

\* the place in the response of the event of business nid of the restaurants
\* search: after the Ticketmaster events and the businesses listed before it,
\* each counted once
RestaurantsPlace(nid) ==
    LET items == yelp.replies[1].items
        first == KthOf({i \in 1..Len(items) : items[i] = nid}, 1)
    IN  Cardinality(IdsOf(tm.result)) + Cardinality({items[j] : j \in 1..(first - 1)}) + 1

\* C27: a business returned by the restaurants search and by the bars,nightlife
\* search is in the response once, where its restaurants occurrence stands and
\* with category food, and sources.yelp counts every business of both replies
\* (in a response of the try block; the catch block serves the mock events).
BothSearchesOnce ==
    AnsweredLive =>
        \A nid \in InBothSearches :
            /\ Cardinality({k \in 1..Len(TheEvents) : TheEvents[k].id = "yelp-" \o nid}) = 1
            /\ TheEvents[RestaurantsPlace(nid)].id = "yelp-" \o nid
            /\ TheEvents[RestaurantsPlace(nid)].category = "food"
            /\ "yelp" \in DOMAIN TheResponse.body.sources
            /\ TheResponse.body.sources.yelp
                  = Len(yelp.replies[1].items) + Len(yelp.replies[2].items)

\* C27 witness: Ticketmaster returned one event and both Yelp searches the
\* business a; the response holds two events and counts two for Yelp
BothSearchesOnceWitness ==
    /\ AnsweredLive
    /\ InBothSearches = {"a"}
    /\ Len(tm.result) = 1
    /\ Len(TheEvents) = 2
    /\ TheEvents[2].id = "yelp-a"
    /\ TheResponse.body.sources.yelp = 2

\* C28: a response does not mix live and mock events.  Its events are the mock
\* events exactly when every adapter returned the empty list or the catch block
\* answered; otherwise they are the events the adapters returned, none of them
\* a mock event; when one adapter failed and returned nothing and the other
\* returned an event, they are the events of the other.
NeverMixed ==
    Answered =>
        LET live == tm.result \o yelp.result
            mock == BaseOf(TheEvents) = MOCK_EVENTS
        IN  /\ mock <=> (AnsweredByCatch \/ live = <<>>)
            /\ ~mock =>
                  /\ \A k \in 1..Len(TheEvents) : TheEvents[k].id \notin MockIds
                  /\ BaseOf(TheEvents) = FirstOccurrences(live)
            /\ (AnsweredLive /\ tm.last \in FailureKinds /\ yelp.result # <<>>) =>
                  BaseOf(TheEvents) = FirstOccurrences(yelp.result)
            /\ (AnsweredLive /\ yelp.last \in FailureKinds /\ yelp.result = <<>>
                    /\ tm.result # <<>>) =>
                  BaseOf(TheEvents) = FirstOccurrences(tm.result)

\* C28 witness: the Ticketmaster call failed with a network error, Yelp
\* returned a business, and the response holds that business and nothing else
NeverMixedWitness ==
    /\ AnsweredLive
    /\ tm.last = "networkError"
    /\ Len(yelp.result) = 1
    /\ Len(TheEvents) = 1
    /\ TheEvents[1].id = "yelp-a"

\* the number of entries of a list that are id
CountOf(list, id) == Cardinality({i \in 1..Len(list) : list[i] = id})

\* C29: no toggle made during the initial load is lost.  Once loading has
\* ended and the render after it is done (and no toggle was made since), an id
\* is a favorite exactly when its stored membership (that of the list the read
\* gave; no list when the read failed) is flipped by an odd number of pending
\* toggles, favorites holds no id twice, and the list written to storage is
\* favorites.
NoToggleLost ==
    (fav.load = "done" /\ fav.queue = <<>> /\ fav.later = 0) =>
        LET stored == fav.loaded
        IN  /\ \A id \in FavoriteIds :
                  (id \in Range(fav.favorites))
                      <=> ((id \in Range(stored)) # (CountOf(fav.pendingAtLoad, id) % 2 = 1))
            /\ \A id \in FavoriteIds : CountOf(fav.favorites, id) <= 1
            /\ fav.written = <<fav.favorites>>

\* C30: the source of a response of the single-provider handler is "mock"
\* exactly when its events are the mock events, and "ticketmaster" exactly
\* when they were mapped from the events of a Ticketmaster response.
SourceTellsLiveFromMock ==
    \A i \in 1..Len(responses) :
        LET body == responses[i].body
            mapped == /\ tm.last = "ok"
                      /\ Len(tm.replies[1].items) > 0
                      /\ body.events = [k \in 1..Len(tm.replies[1].items) |->
                            TicketmasterEventSingle(TicketmasterItem(tm.replies[1].items[k]))]
        IN  /\ body.source = "mock" <=> body.events = MOCK_EVENTS_SINGLE
            /\ body.source = "ticketmaster" <=> mapped

====
